---- MODULE Spec2Model ----
(***************************************************************************)
(* mihomot: the event loop of src/src/main.rs (run_app), the application   *)
(* state and control client of src/src/app.rs (App), and the background    *)
(* tasks that talk to the loop over channels.                              *)
(*                                                                         *)
(* Strings that the user can edit are sequences of one-character strings;  *)
(* strings that are only compared are TLA+ strings.                        *)
(***************************************************************************)
EXTENDS Integers, Sequences, FiniteSets, TLC

(***************************************************************************)
(* Bounds of the model (not program constants).                            *)
(***************************************************************************)
MaxTriggers == 3     \* calls of trigger_latency_test in one run
MaxSweeps == 2       \* calls of trigger_group_latency_test in one run
MaxSamples == 4      \* traffic samples produced by the poller in one run
MaxCalls == 2        \* control-call sequences started from the loop in one run
MaxTyped == 2        \* keys that open the edit popup, type into it or delete from it in one run
MaxFaults == 1       \* control calls that fail or are answered with a bad body in one run
HistoryCap == 2      \* capacity C of each traffic history
ProxyChanCap == 3    \* capacity of the group-probe results channel
TrafficChanCap == 2  \* capacity of the traffic-samples channel
LateProbes == 3      \* probes still in flight when the results channel is nearly full
MaxIndex == 2        \* largest selection index that next_group/next_proxy count up to
MaxScroll == 2       \* largest scroll offset the info popup is scrolled down to

\* Option<T>: None and Some(v); Option<String> fields that are only displayed
\* use the string NoStr for None
None == [some |-> FALSE]
Some(v) == [some |-> TRUE, v |-> v]
NoStr == "<none>"

(***************************************************************************)
(* Program constants.                                                      *)
(***************************************************************************)
LatencyChanCap == 10          \* mpsc::channel(10)
default_test_timeout == 3000

default_base_url ==
    << "h","t","t","p",":","/","/","1","2","7",".","0",".","0",".","1",":","9","0","9","0" >>
\* std::env::var("MIHOMO_SECRET").unwrap_or_else(|_| "mihomo"): env is the
\* variable, None when it is not set
default_api_secret(env) == IF env.some THEN env.v ELSE << "m","i","h","o","m","o" >>
default_test_url ==
    << "h","t","t","p","s",":","/","/","w","w","w",".","g","o","o","g","l","e",".","c","o","m" >>

(***************************************************************************)
(* reqwest::StatusCode                                                     *)
(***************************************************************************)
is_success(s) == s >= 200 /\ s <= 299
is_redirection(s) == s >= 300 /\ s <= 399

(***************************************************************************)
(* Names.  Rust compares strings lexicographically; NameOrder lists the    *)
(* names of the model in that order.                                       *)
(***************************************************************************)
NameOrder == << "A", "B", "G1", "G2" >>
Names == { NameOrder[i] : i \in 1..Len(NameOrder) }

RECURSIVE SortedFrom(_, _)
SortedFrom(S, i) ==
    IF i > Len(NameOrder) THEN << >>
    ELSE IF NameOrder[i] \in S THEN << NameOrder[i] >> \o SortedFrom(S, i + 1)
    ELSE SortedFrom(S, i + 1)
\* Vec::sort of a set of names, ascending
Sort(S) == SortedFrom(S, 1)

(***************************************************************************)
(* The daemon's data.  ProxyItem: name, type, now, all (each Option).      *)
(***************************************************************************)
Leaf(n) == [name |-> n, proxy_type |-> "Shadowsocks", now |-> NoStr, all |-> None]

DaemonProxies ==
    [n \in Names |->
        CASE n = "G1" -> [name |-> "G1", proxy_type |-> "Selector", now |-> "A",
                          all |-> Some(<< "A", "B" >>)]
          [] n = "G2" -> [name |-> "G2", proxy_type |-> "URLTest", now |-> "B",
                          all |-> Some(<< "B" >>)]
          [] OTHER -> Leaf(n)]

DaemonConfig ==
    [mode |-> "rule", tun |-> [enable |-> FALSE], mixed_port |-> 7890,
     log_level |-> "info", allow_lan |-> FALSE, bind_address |-> << "*" >>,
     ipv6 |-> FALSE]


(***************************************************************************)
(* LatencyStatus                                                           *)
(***************************************************************************)
Pending == [tag |-> "Pending"]
Testing == [tag |-> "Testing"]
Success(ms) == [tag |-> "Success", ms |-> ms]
Failed(msg) == [tag |-> "Failed", msg |-> msg]

Delays == { 50, 600 }
ProbeStatuses == { 200, 301, 404 }
ControlStatuses == { 200, 500 }

\* what a HEAD request of a probe task can end in: a response after ms
\* milliseconds, or a reqwest::Error: the request timed out, the connection
\* failed, the connection attempt itself timed out (both), or anything else
ProbeOutcomes ==
    { [kind |-> "resp", status |-> s, ms |-> d] : s \in ProbeStatuses, d \in Delays }
    \cup { [kind |-> "timeout", status |-> 0, ms |-> 0],
           [kind |-> "connect", status |-> 0, ms |-> 0],
           [kind |-> "connect_timeout", status |-> 0, ms |-> 0],
           [kind |-> "other", status |-> 0, ms |-> 0] }

\* reqwest::Error::is_timeout, is_connect
is_timeout(o) == o.kind \in { "timeout", "connect_timeout" }
is_connect(o) == o.kind \in { "connect", "connect_timeout" }

StatusText(s) ==
    CASE s = 404 -> "Status: 404 Not Found"
      [] s = 500 -> "Status: 500 Internal Server Error"
      [] OTHER -> "Status: other"

\* (mutant) only a 2xx response counts as a success
ProbeMessage_SuccessOnly2xx(o) ==
    IF o.kind = "resp"
    THEN IF is_success(o.status) THEN Success(o.ms) ELSE Failed(StatusText(o.status))
    ELSE IF is_timeout(o) THEN Failed("Timeout")
    ELSE IF is_connect(o) THEN Failed("Conn Err")
    ELSE Failed("Error")

\* the message a single-target probe task sends for an outcome of its request
ProbeMessage(o) ==
    IF o.kind = "resp"
    THEN IF is_success(o.status) \/ is_redirection(o.status)
         THEN Success(o.ms)
         ELSE Failed(StatusText(o.status))
    ELSE IF is_timeout(o) THEN Failed("Timeout")
    ELSE IF is_connect(o) THEN Failed("Conn Err")
    ELSE Failed("Error")

(***************************************************************************)
(* AppSettings                                                             *)
(***************************************************************************)
\* impl Default for AppSettings
AppSettingsDefault(env) ==
    [base_url |-> default_base_url, api_secret |-> default_api_secret(env),
     test_url |-> default_test_url, test_timeout |-> default_test_timeout]

\* the defaults when MIHOMO_SECRET is not set
DefaultSettings == AppSettingsDefault(None)

\* The settings file: None when there is none, Some(v) when it holds a JSON
\* object with the fields of v, or a file that cannot be read or parsed.
\* NoHome: HOME is not set, so there is no path.
NoHome == [some |-> FALSE, home |-> FALSE]
Unreadable == [some |-> TRUE, form |-> "unreadable"]
Malformed == [some |-> TRUE, form |-> "malformed"]
NoFields == [x \in {} |-> 0]

\* serde_json::from_str::<AppSettings>: a field the object lacks takes its
\* #[serde(default = ..)]
from_str(v, env) ==
    [base_url |-> IF "base_url" \in DOMAIN v THEN v.base_url ELSE default_base_url,
     api_secret |-> IF "api_secret" \in DOMAIN v THEN v.api_secret
                    ELSE default_api_secret(env),
     test_url |-> IF "test_url" \in DOMAIN v THEN v.test_url ELSE default_test_url,
     test_timeout |-> IF "test_timeout" \in DOMAIN v THEN v.test_timeout
                      ELSE default_test_timeout]

\* (mutant) a file that cannot be read or parsed yields empty settings
load_app_settings_Zeroed(f, env) ==
    IF f.some /\ "v" \in DOMAIN f THEN from_str(f.v, env)
    ELSE IF f.some THEN [base_url |-> << >>, api_secret |-> << >>,
                         test_url |-> << >>, test_timeout |-> 0]
    ELSE AppSettingsDefault(env)

\* App::load_app_settings
load_app_settings(f, env) ==
    IF f.some /\ "v" \in DOMAIN f THEN from_str(f.v, env)
    ELSE AppSettingsDefault(env)

\* the settings files and values of MIHOMO_SECRET a run may start with
CustomSettings ==
    [base_url |-> << "h" >>, api_secret |-> << "k" >>, test_url |-> << "t" >>,
     test_timeout |-> 5000]
SettingsFiles ==
    { None, NoHome, Unreadable, Malformed, Some(NoFields),
      Some([api_secret |-> << >>]), Some(CustomSettings) }
EnvSecrets == { None, Some(<< >>) }

(***************************************************************************)
(* Control client: requests and responses.  A response is a connection     *)
(* failure (conn = "err"), or a status with a body; good says whether the  *)
(* body deserializes as the type the caller asks for.                      *)
(***************************************************************************)
NoResp == [conn |-> "none", status |-> 0, good |-> FALSE, body |-> None]
ConnErr == [conn |-> "err", status |-> 0, good |-> FALSE, body |-> None]
Answer(st, good, body) == [conn |-> "ok", status |-> st, good |-> good, body |-> body]

NoReq == [op |-> "none", base |-> << >>, auth |-> None, body |-> None]
\* (mutant) bearer_auth is called whatever the secret
BuildRequest_AlwaysAuth(settings, op, body) ==
    [op |-> op, base |-> settings.base_url, auth |-> Some(settings.api_secret),
     body |-> body]

\* the request an operation builds from the settings of the moment
BuildRequest(settings, op, body) ==
    [op |-> op, base |-> settings.base_url,
     auth |-> IF settings.api_secret # << >> THEN Some(settings.api_secret) ELSE None,
     body |-> body]

\* what the App functions called by the running handler have returned so far;
\* of is the function that handled the response held in resp
NoRet == [fetch_proxies |-> "none", fetch_config |-> "none",
          update_config |-> "none", select_proxy |-> "none", of |-> "none"]

\* number of entries of the map p that are Selectors named n
Copies(p, n) ==
    Cardinality({ k \in DOMAIN p : p[k].proxy_type = "Selector" /\ p[k].name = n })
Repeat(n, c) == [i \in 1..c |-> n]
RECURSIVE SelectorNamesFrom(_, _)
SelectorNamesFrom(p, i) ==
    IF i > Len(NameOrder) THEN << >>
    ELSE Repeat(NameOrder[i], Copies(p, NameOrder[i])) \o SelectorNamesFrom(p, i + 1)
\* (mutant) the list is built from the keys of the map
GroupNames_Keys(p) == Sort({ k \in DOMAIN p : p[k].proxy_type = "Selector" })

\* group_names after a successful fetch: the names of the Selector entries, sorted
GroupNames(p) == SelectorNamesFrom(p, 1)

\* (mutant) a response that cannot be used resets the stored map and list
FetchProxies_ClearOnError(r, old) ==
    IF r.conn = "ok" /\ is_success(r.status) /\ r.good
    THEN [proxies |-> r.body, group_names |-> GroupNames(r.body),
          error |-> NoStr, ret |-> "Ok"]
    ELSE [proxies |-> << >>, group_names |-> << >>,
          error |-> "Failed to connect", ret |-> "Ok"]

\* fetch_proxies: what the response does to proxies, group_names and error
FetchProxies(r, old) ==
    IF r.conn = "ok"
    THEN IF is_success(r.status)
         THEN IF r.good
              THEN [proxies |-> r.body, group_names |-> GroupNames(r.body),
                    error |-> NoStr, ret |-> "Ok"]
              ELSE [old EXCEPT !.error = "Failed to parse JSON", !.ret = "Ok"]
         ELSE [old EXCEPT !.error = "Server returned error", !.ret = "Ok"]
    ELSE [old EXCEPT !.error = "Failed to connect", !.ret = "Ok"]

\* (mutant) a response that cannot be used clears the cached config
FetchConfig_ClearOnError(r, old) ==
    IF r.conn = "ok" /\ is_success(r.status) /\ r.good
    THEN [config |-> Some(r.body), ret |-> "Ok"]
    ELSE [config |-> None, ret |-> "Err"]

\* fetch_config: what the response does to config, and the Result returned
FetchConfig(r, old) ==
    IF r.conn # "ok" THEN [config |-> old, ret |-> "Err"]
    ELSE IF is_success(r.status)
         THEN IF r.good THEN [config |-> Some(r.body), ret |-> "Ok"]
              ELSE [config |-> old, ret |-> "Err"]
         ELSE [config |-> old, ret |-> "Ok"]

\* the configuration with the field of a PATCH body replaced
ApplyPatch(c, b) ==
    CASE b.field = "mode" -> [c EXCEPT !.mode = b.value]
      [] b.field = "tun" -> [c EXCEPT !.tun = [enable |-> b.value]]
      [] b.field = "mixed-port" -> [c EXCEPT !.mixed_port = b.value]
      [] b.field = "log-level" -> [c EXCEPT !.log_level = b.value]
      [] b.field = "allow-lan" -> [c EXCEPT !.allow_lan = b.value]
      [] b.field = "bind-address" -> [c EXCEPT !.bind_address = b.value]
      [] b.field = "ipv6" -> [c EXCEPT !.ipv6 = b.value]
      [] OTHER -> c

\* request.send().await? of update_config and select_proxy
SendOnly(r) == IF r.conn = "ok" THEN "Ok" ELSE "Err"

\* (mutant) the patched value is written into the cached config when the PATCH
\* is answered
UpdateConfigSend_Optimistic(q, r, old) ==
    [config |-> IF r.conn = "ok" /\ is_success(r.status) /\ old.some
                THEN Some(ApplyPatch(old.v, q.body)) ELSE old,
     ret |-> SendOnly(r)]

\* update_config up to its fetch: the PATCH q is sent; the response r is only
\* checked for a transport error
UpdateConfigSend(q, r, old) == [config |-> old, ret |-> SendOnly(r)]

VARIABLES
    \* App (src/src/app.rs, and the fields main.rs and ui.rs use)
    proxies, config, real_latency_status, app_settings, proxy_latency,
    traffic_history_down, traffic_history_up, current_down, current_up,
    group_names, group_state, proxy_state, focus, previous_focus,
    show_info_popup, popup_scroll, settings_state, is_editing, editing_value,
    error,
    \* channels into the loop
    real_latency_rx, proxy_test_rx, traffic_rx,
    \* background tasks
    real_probes, group_probes,
    \* the event loop: where it is, the control calls still to make, the
    \* request in flight and the response to it
    loop_pc, plan, ctx, req, resp, ret,
    \* the daemon and the settings file
    d_config, d_proxies, settings_file,
    \* history: generations triggered, generation of the result on display,
    \* generation behind each proxy_latency entry, samples drained so far,
    \* group probes that have ended
    G, H, shown_gen, entry_gen, ingested, finished,
    \* counters that bound a run
    samples, calls, typed, faults

app_vars ==
    << proxies, config, real_latency_status, app_settings, proxy_latency,
       traffic_history_down, traffic_history_up, current_down, current_up,
       group_names, group_state, proxy_state, focus, previous_focus,
       show_info_popup, popup_scroll, settings_state, is_editing, editing_value,
       error >>
chan_vars == << real_latency_rx, proxy_test_rx, traffic_rx >>
task_vars == << real_probes, group_probes >>
loop_vars == << loop_pc, plan, ctx, req, resp, ret >>
env_vars == << d_config, d_proxies, settings_file >>
hist_vars == << G, H, shown_gen, entry_gen, ingested, finished >>
count_vars == << samples, calls, typed, faults >>
vars == << app_vars, chan_vars, task_vars, loop_vars, env_vars, hist_vars, count_vars >>

(***************************************************************************)
(* The state after App::new, with main's first call (fetch_proxies) sent.  *)
(***************************************************************************)
\* App::new with the settings loaded and the settings file f
InitWith(settings, f) ==
    /\ proxies = << >>
    /\ config = None
    /\ real_latency_status = Pending
    /\ app_settings = settings
    /\ proxy_latency = << >>
    /\ traffic_history_down = << >>
    /\ traffic_history_up = << >>
    /\ current_down = 0
    /\ current_up = 0
    /\ group_names = << >>
    /\ group_state = Some(0)
    /\ proxy_state = Some(0)
    /\ focus = "Groups"
    /\ previous_focus = "Groups"
    /\ show_info_popup = FALSE
    /\ popup_scroll = 0
    /\ settings_state = Some(0)
    /\ is_editing = FALSE
    /\ editing_value = << >>
    /\ error = NoStr
    /\ real_latency_rx = << >>
    /\ proxy_test_rx = << >>
    /\ traffic_rx = << >>
    /\ real_probes = {}
    /\ group_probes = {}
    /\ loop_pc = "await"
    /\ plan = << "fetch_config" >>
    /\ ctx = "startup"
    /\ req = BuildRequest(settings, "fetch_proxies", None)
    /\ resp = NoResp
    /\ ret = NoRet
    /\ d_config = DaemonConfig
    /\ d_proxies = DaemonProxies
    /\ settings_file = f
    /\ G = 0
    /\ H = 0
    /\ shown_gen = 0
    /\ entry_gen = << >>
    /\ ingested = << >>
    /\ finished = {}
    /\ samples = 0
    /\ calls = 0
    /\ typed = 0
    /\ faults = 0

\* no settings file, MIHOMO_SECRET not set
Init == InitWith(load_app_settings(None, None), None)

\* MIHOMO_SECRET not set or set to the empty string, no settings file
InitEnv == \E env \in EnvSecrets : InitWith(load_app_settings(None, env), None)

\* any of the settings files and values of MIHOMO_SECRET
InitLoad ==
    \E f \in SettingsFiles, env \in EnvSecrets : InitWith(load_app_settings(f, env), f)

(***************************************************************************)
(* trigger_latency_test: the status becomes Testing and a task is spawned  *)
(* with the test URL and timeout of the moment; its HEAD request is built  *)
(* without bearer_auth.  gen is the number of the  *)
(* trigger (history: the program keeps no such counter).                   *)
(***************************************************************************)
SpawnedProbe(settings, g) ==
    [gen |-> g, url |-> settings.test_url, timeout |-> settings.test_timeout,
     auth |-> None]

\* (mutant) the task stores its result in the application state itself
ProbeDone_WritesState ==
    \E p \in real_probes : \E o \in ProbeOutcomes :
        /\ real_latency_status' = ProbeMessage(o)
        /\ real_probes' = real_probes \ {p}
        /\ UNCHANGED << proxies, config, app_settings, proxy_latency,
                        traffic_history_down, traffic_history_up, current_down,
                        current_up, group_names, group_state, proxy_state, focus,
                        previous_focus, show_info_popup, popup_scroll, settings_state,
                        is_editing, editing_value, error, chan_vars, group_probes,
                        loop_vars, env_vars, hist_vars, count_vars >>

\* (mutant) try_send in place of send(..).await: the message is dropped when
\* the channel is full
ProbeDone_TrySend ==
    \E p \in real_probes : \E o \in ProbeOutcomes :
        /\ real_latency_rx' =
               IF Len(real_latency_rx) < LatencyChanCap
               THEN Append(real_latency_rx,
                           [status |-> ProbeMessage(o), gen |-> p.gen, outcome |-> o])
               ELSE real_latency_rx
        /\ real_probes' = real_probes \ {p}
        /\ UNCHANGED << app_vars, proxy_test_rx, traffic_rx, group_probes, loop_vars,
                        env_vars, hist_vars, count_vars >>

\* the task's request ends and the task sends its message: tx.send(..).await
\* waits while the channel is full
ProbeDone ==
    \E p \in real_probes : \E o \in ProbeOutcomes :
        /\ Len(real_latency_rx) < LatencyChanCap
        /\ real_latency_rx' =
               Append(real_latency_rx,
                      [status |-> ProbeMessage(o), gen |-> p.gen, outcome |-> o])
        /\ real_probes' = real_probes \ {p}
        /\ UNCHANGED << app_vars, proxy_test_rx, traffic_rx, group_probes, loop_vars,
                        env_vars, hist_vars, count_vars >>

(***************************************************************************)
(* The drains at the top of each pass of the loop.                          *)
(***************************************************************************)
\* if let Ok(status) = real_latency_rx.try_recv() { real_latency_status = status }
RecvRealLatency(rx, status) ==
    IF rx # << >>
    THEN [rx |-> Tail(rx), status |-> Head(rx).status]
    ELSE [rx |-> rx, status |-> status]

Insert(map, k, v) == [x \in DOMAIN map \cup {k} |-> IF x = k THEN v ELSE map[x]]

\* (mutant) every result received is written to every entry
RECURSIVE DrainProxyLatency_Shared(_, _)
DrainProxyLatency_Shared(map, rx) ==
    IF rx = << >> THEN map
    ELSE DrainProxyLatency_Shared(
             [x \in DOMAIN map \cup { Head(rx).name } |-> Some(Head(rx).latency)], Tail(rx))

\* while let Ok((name, latency)) = proxy_test_rx.try_recv() { insert(name, Some(latency)) }
RECURSIVE DrainProxyLatency(_, _)
DrainProxyLatency(map, rx) ==
    IF rx = << >> THEN map
    ELSE DrainProxyLatency(Insert(map, Head(rx).name, Some(Head(rx).latency)), Tail(rx))

\* App::on_traffic: one sample appended to both histories, the oldest sample
\* leaving a full history first; the sample is the current rate
OnTraffic(t, s) ==
    LET push(h, x) == IF Len(h) >= HistoryCap THEN Append(Tail(h), x) ELSE Append(h, x)
    IN  [down |-> push(t.down, s.down), up |-> push(t.up, s.up),
         current_down |-> s.down, current_up |-> s.up]

\* (mutant) if let in place of while let: one sample of a pass is applied
DrainTraffic_FirstOnly(t, rx) ==
    IF rx = << >> THEN t ELSE OnTraffic(t, Head(rx))

\* while let Ok(traffic) = traffic_rx.try_recv() { on_traffic(traffic) }
RECURSIVE DrainTraffic(_, _)
DrainTraffic(t, rx) ==
    IF rx = << >> THEN t ELSE DrainTraffic(OnTraffic(t, Head(rx)), Tail(rx))

\* (mutant) if let in place of while let: one sample leaves the channel
RemainingTraffic_FirstOnly(rx) == IF rx = << >> THEN rx ELSE Tail(rx)

\* what the while let leaves in the channel: try_recv takes the front sample
\* until it fails on an empty channel
RECURSIVE RemainingTraffic(_)
RemainingTraffic(rx) == IF rx = << >> THEN rx ELSE RemainingTraffic(Tail(rx))

\* history: the generation behind each entry of proxy_latency
RECURSIVE DrainEntryGen(_, _)
DrainEntryGen(map, rx) ==
    IF rx = << >> THEN map
    ELSE DrainEntryGen(Insert(map, Head(rx).name, Head(rx).gen), Tail(rx))

\* Vec::get with a 0-based index
Get(seq, i) == IF i >= 0 /\ i < Len(seq) THEN Some(seq[i + 1]) ELSE None

\* ratatui's stateful List and Table: a selection is dropped when there are no
\* items and moved to the last item when it is beyond it
ClampSelected(sel, n) ==
    IF n = 0 THEN None
    ELSE IF sel.some /\ sel.v >= n THEN Some(n - 1)
    ELSE sel

\* f.render_stateful_widget(.., &mut state): the widget adjusts the selection,
\* or returns before it does when its area is empty (a terminal too small)
Rendered(sel, n) == { sel, ClampSelected(sel, n) }

\* draw_proxies: the number of rows of the member table it renders with
\* proxy_state, None when it renders a paragraph instead
TableRows(gs) ==
    IF group_names = << >> THEN None
    ELSE LET g == Get(group_names, IF gs.some THEN gs.v ELSE 0)
         IN  IF g.some /\ g.v \in DOMAIN proxies /\ proxies[g.v].all.some
             THEN Some(Len(proxies[g.v].all.v))
             ELSE None

\* one pass of the loop up to event::poll: draw, then the three drains
Tick ==
    /\ loop_pc = "draw"
    /\ \E gs \in Rendered(group_state, Len(group_names)) :
          /\ group_state' = gs
          /\ proxy_state' \in (IF TableRows(gs).some
                                THEN Rendered(proxy_state, TableRows(gs).v)
                                ELSE { proxy_state })
    /\ LET r == RecvRealLatency(real_latency_rx, real_latency_status)
           t == DrainTraffic([down |-> traffic_history_down, up |-> traffic_history_up,
                              current_down |-> current_down, current_up |-> current_up],
                             traffic_rx)
       IN  /\ real_latency_rx' = r.rx
           /\ real_latency_status' = r.status
           /\ shown_gen' = IF real_latency_rx # << >> THEN Head(real_latency_rx).gen
                           ELSE shown_gen
           /\ proxy_latency' = DrainProxyLatency(proxy_latency, proxy_test_rx)
           /\ entry_gen' = DrainEntryGen(entry_gen, proxy_test_rx)
           /\ proxy_test_rx' = << >>
           /\ traffic_history_down' = t.down
           /\ traffic_history_up' = t.up
           /\ current_down' = t.current_down
           /\ current_up' = t.current_up
           /\ ingested' = ingested \o SubSeq(traffic_rx, 1,
                                  Len(traffic_rx) - Len(RemainingTraffic(traffic_rx)))
           /\ traffic_rx' = RemainingTraffic(traffic_rx)
    /\ loop_pc' = "poll"
    /\ ret' = NoRet
    /\ resp' = NoResp
    /\ UNCHANGED << proxies, config, app_settings, group_names,
                    focus, previous_focus, show_info_popup, popup_scroll, settings_state,
                    is_editing, editing_value, error, task_vars, plan, ctx, req,
                    env_vars, G, H, finished, count_vars >>

\* event::poll(100ms) returns false, or the event is not a key press
PollTimeout ==
    /\ loop_pc = "poll"
    /\ loop_pc' = "draw"
    /\ UNCHANGED << app_vars, chan_vars, task_vars, plan, ctx, req, resp, ret,
                    env_vars, hist_vars, count_vars >>

(***************************************************************************)
(* Keys of the main view (not editing, no popup, focus not Settings).      *)
(***************************************************************************)
MainView == loop_pc = "poll" /\ ~is_editing /\ ~show_info_popup /\ focus # "Settings"

\* a handler starts a sequence of control calls / ends without one
StartCall(c, settings, op, body, rest) ==
    /\ calls < MaxCalls
    /\ calls' = calls + 1
    /\ loop_pc' = "await"
    /\ ctx' = c
    /\ req' = BuildRequest(settings, op, body)
    /\ plan' = rest
NoCall ==
    /\ loop_pc' = "draw"
    /\ UNCHANGED << ctx, req, plan, calls >>

\* 't': trigger_latency_test
KeyT ==
    /\ MainView
    /\ G < MaxTriggers
    /\ real_latency_status' = Testing
    /\ real_probes' = real_probes \cup { SpawnedProbe(app_settings, G + 1) }
    /\ G' = G + 1
    /\ loop_pc' = "draw"
    /\ UNCHANGED << proxies, config, app_settings, proxy_latency, traffic_history_down,
                    traffic_history_up, current_down, current_up, group_names,
                    group_state, proxy_state, focus, previous_focus, show_info_popup,
                    popup_scroll, settings_state, is_editing, editing_value, error,
                    chan_vars, group_probes, plan, ctx, req, resp, ret, env_vars,
                    H, shown_gen, entry_gen, ingested, finished, count_vars >>

(***************************************************************************)
(* The daemon.  It may refuse the connection, answer with an error status, *)
(* answer 2xx with a body that does not parse, or serve the request.  A    *)
(* PATCH it accepts is applied or ignored (validation, clamping).          *)
(***************************************************************************)
ApplySelect(p, b) ==
    IF /\ b.group \in DOMAIN p
       /\ p[b.group].all.some
       /\ \E i \in 1..Len(p[b.group].all.v) : p[b.group].all.v[i] = b.name
    THEN [p EXCEPT ![b.group].now = b.name]
    ELSE p

\* proxy maps the daemon may serve: G1 the only Selector, both groups
\* Selectors, a Selector that carries no name, no Selector, a Selector with an
\* empty member list
ProxyMaps ==
    { DaemonProxies,
      [DaemonProxies EXCEPT !["G2"].proxy_type = "Selector"],
      [DaemonProxies EXCEPT !["G1"].name = NoStr, !["G2"].proxy_type = "Selector"],
      [DaemonProxies EXCEPT !["G1"].proxy_type = "URLTest"],
      [DaemonProxies EXCEPT !["G1"].all = Some(<< >>)] }

\* the daemon's groups change (its configuration is reloaded)
DaemonReload ==
    /\ d_proxies' \in ProxyMaps \ { d_proxies }
    /\ UNCHANGED << app_vars, chan_vars, task_vars, loop_vars, d_config, settings_file,
                    hist_vars, count_vars >>

\* configurations the daemon may hold: each mode and each log level of the two
\* cycles of handle_setting_change, and one value outside each cycle
DaemonModes == { "rule", "global", "direct", "script" }
DaemonLogLevels == { "info", "warning", "error", "debug", "silent", "trace" }
DaemonConfigs ==
    { [DaemonConfig EXCEPT !.mode = m] : m \in DaemonModes }
    \cup { [DaemonConfig EXCEPT !.log_level = l] : l \in DaemonLogLevels }

\* the daemon's configuration is changed from outside (another client, a
\* reload of its configuration file); the model lets this happen to the
\* configuration the daemon starts with
DaemonReconfigure ==
    /\ d_config = DaemonConfig
    /\ d_config' \in DaemonConfigs \ { d_config }
    /\ UNCHANGED << app_vars, chan_vars, task_vars, loop_vars, d_proxies, settings_file,
                    hist_vars, count_vars >>

Failures ==
    { ConnErr } \cup { Answer(st, FALSE, None) : st \in { x \in ControlStatuses : ~is_success(x) } }
OkStatuses == { x \in ControlStatuses : is_success(x) }

\* the responses the daemon can give to r, each with the daemon's state after it
Outcomes(r, dc, dp) ==
    { [resp |-> f, d_config |-> dc, d_proxies |-> dp] : f \in Failures }
    \cup
    CASE r.op = "fetch_proxies" ->
            { [resp |-> Answer(st, good, IF good THEN dp ELSE None),
               d_config |-> dc, d_proxies |-> dp] : st \in OkStatuses, good \in BOOLEAN }
      [] r.op = "fetch_config" ->
            { [resp |-> Answer(st, good, IF good THEN dc ELSE None),
               d_config |-> dc, d_proxies |-> dp] : st \in OkStatuses, good \in BOOLEAN }
      [] r.op = "patch" ->
            { [resp |-> Answer(st, FALSE, None), d_config |-> c, d_proxies |-> dp] :
                st \in OkStatuses, c \in { dc, ApplyPatch(dc, r.body) } }
      [] r.op = "select_proxy" ->
            { [resp |-> Answer(st, FALSE, None), d_config |-> dc,
               d_proxies |-> ApplySelect(dp, r.body)] : st \in OkStatuses }
      [] OTHER -> {}

\* a response that is not the daemon serving the request as asked
IsFault(r) == r.conn # "ok" \/ ~is_success(r.status)

DaemonReply ==
    /\ loop_pc = "await"
    /\ \E o \in Outcomes(req, d_config, d_proxies) :
        LET bad == IsFault(o.resp) \/ (req.op \in { "fetch_proxies", "fetch_config" } /\ ~o.resp.good)
        IN  /\ bad => faults < MaxFaults
            /\ faults' = IF bad THEN faults + 1 ELSE faults
            /\ resp' = o.resp
            /\ d_config' = o.d_config
            /\ d_proxies' = o.d_proxies
    /\ loop_pc' = "resume"
    /\ UNCHANGED << app_vars, chan_vars, task_vars, plan, ctx, req, ret, settings_file,
                    hist_vars, samples, calls, typed >>

(***************************************************************************)
(* The loop resumes with the response: the rest of the awaited function    *)
(* runs, then the next call of the handler is sent or the handler ends.    *)
(*   ctx = "startup"     main: fetch_proxies, fetch_config, trigger        *)
(*         "refresh"     'r': fetch_proxies, fetch_config                  *)
(*         "select"      Enter: select_proxy, fetch_proxies                *)
(*         "setting"     handle_setting_change: update_config              *)
(*         "edit_update" commit_edit: update_config                        *)
(*         "edit_fetch"  commit_edit: fetch_proxies, fetch_config          *)
(***************************************************************************)
InUpdate == ctx \in { "setting", "edit_update" }
InEdit == ctx \in { "edit_update", "edit_fetch" }

\* the Result the handler's awaited call hands to the loop: of update_config
\* in handle_setting_change and commit_edit, of the last call otherwise
HandlerResult(c, r) ==
    CASE c \in { "setting", "edit_update" } -> r.update_config
      [] c = "refresh" -> r.fetch_config
      [] c = "select" -> r.fetch_proxies
      [] OTHER -> "Ok"

\* (mutant) `?` in place of `let _ =`: an Err leaves run_app
DiscardResult_Propagate(r) == IF r = "Err" THEN "failed" ELSE "draw"

\* let _ = <call>.await; : the Result is dropped and the loop goes on to draw
DiscardResult(r) == "draw"

HandleReply ==
    /\ loop_pc = "resume"
    /\ LET op == req.op
           fp == IF op = "fetch_proxies"
                 THEN FetchProxies(resp, [proxies |-> proxies, group_names |-> group_names,
                                          error |-> error, ret |-> "none"])
                 ELSE [proxies |-> proxies, group_names |-> group_names,
                       error |-> error, ret |-> ret.fetch_proxies]
           up == IF op = "patch" THEN UpdateConfigSend(req, resp, config)
                 ELSE [config |-> config, ret |-> "none"]
           fc == IF op = "fetch_config" THEN FetchConfig(resp, up.config)
                 ELSE [config |-> up.config, ret |-> ret.fetch_config]
           \* request.send().await? : an error ends update_config before its fetch
           rest == IF up.ret = "Err" THEN << >> ELSE plan
           done == rest = << >>
           newret == [fetch_proxies |-> fp.ret,
                      fetch_config |-> fc.ret,
                      update_config |->
                          IF up.ret = "Err" THEN "Err"
                          ELSE IF op = "fetch_config" /\ InUpdate THEN fc.ret
                          ELSE ret.update_config,
                      select_proxy |->
                          IF op = "select_proxy" THEN SendOnly(resp) ELSE ret.select_proxy,
                      of |-> op]
       IN  /\ proxies' = fp.proxies
           /\ group_names' = fp.group_names
           /\ error' = fp.error
           /\ config' = fc.config
           /\ ret' = newret
           /\ IF done
              THEN /\ loop_pc' = DiscardResult(HandlerResult(ctx, newret))
                   /\ req' = NoReq
                   /\ plan' = << >>
                   /\ ctx' = "none"
                   /\ is_editing' = IF InEdit THEN FALSE ELSE is_editing
                   /\ IF ctx = "startup"
                      THEN /\ real_latency_status' = Testing
                           /\ real_probes' = real_probes \cup { SpawnedProbe(app_settings, G + 1) }
                           /\ G' = G + 1
                      ELSE UNCHANGED << real_latency_status, real_probes, G >>
              ELSE /\ loop_pc' = "await"
                   /\ req' = BuildRequest(app_settings, Head(rest), None)
                   /\ plan' = Tail(rest)
                   /\ UNCHANGED << ctx, is_editing, real_latency_status, real_probes, G >>
    /\ UNCHANGED << app_settings, proxy_latency, traffic_history_down, traffic_history_up,
                    current_down, current_up, group_state, proxy_state, focus,
                    previous_focus, show_info_popup, popup_scroll, settings_state,
                    editing_value, chan_vars, group_probes, resp, env_vars,
                    H, shown_gen, entry_gen, ingested, finished, count_vars >>

(***************************************************************************)
(* Selection helpers of App.                                               *)
(***************************************************************************)
get_selected_group_name ==
    IF group_state.some THEN Get(group_names, group_state.v) ELSE None

\* the member list (all) of the selected group, when there is one
SelectedAll ==
    LET g == get_selected_group_name
    IN  IF g.some /\ g.v \in DOMAIN proxies THEN proxies[g.v].all ELSE None

get_selected_proxy_name ==
    IF SelectedAll.some /\ proxy_state.some THEN Get(SelectedAll.v, proxy_state.v) ELSE None

(***************************************************************************)
(* Group fan-out test.  trigger_group_latency_test and its tasks: one      *)
(* probe per member of the selected group, each member's entry reset, the  *)
(* result sent as (name, latency).  gen is the number of the sweep         *)
(* (history: the message carries none).                                    *)
(***************************************************************************)
GroupMembers ==
    IF SelectedAll.some THEN { SelectedAll.v[i] : i \in 1..Len(SelectedAll.v) } ELSE {}

GroupOutcomes ==
    { [kind |-> "delay", ms |-> d] : d \in Delays }
    \cup { [kind |-> "timeout", ms |-> 0], [kind |-> "connect", ms |-> 0] }

TriggerGroup(latency, members) ==
    [x \in DOMAIN latency \cup members |-> IF x \in members THEN None ELSE latency[x]]

SpawnedGroupProbes(members, h) == { [gen |-> h, name |-> m] : m \in members }

\* the message a member's task sends for an outcome of its delay request:
\* (name, latency) for a measured delay, nothing for a failure
GroupMessage(p, o) ==
    IF o.kind = "delay" THEN << [name |-> p.name, latency |-> o.ms, gen |-> p.gen] >>
    ELSE << >>

\* a member's delay request ends and its task sends the result
GroupProbeDone ==
    \E p \in group_probes : \E o \in GroupOutcomes :
        /\ Len(proxy_test_rx) < ProxyChanCap
        /\ proxy_test_rx' = proxy_test_rx \o GroupMessage(p, o)
        /\ group_probes' = group_probes \ {p}
        /\ finished' = finished \cup { [gen |-> p.gen, name |-> p.name, kind |-> o.kind, ms |-> o.ms] }
        /\ UNCHANGED << app_vars, real_latency_rx, traffic_rx, real_probes, loop_vars,
                        env_vars, G, H, shown_gen, entry_gen, ingested, count_vars >>

\* 'r': a sweep of the selected group when the focus is Proxies, then a refresh
KeyR ==
    /\ MainView
    /\ IF focus = "Proxies"
       THEN /\ H < MaxSweeps
            /\ proxy_latency' = TriggerGroup(proxy_latency, GroupMembers)
            /\ group_probes' = group_probes \cup SpawnedGroupProbes(GroupMembers, H + 1)
            /\ H' = H + 1
            /\ entry_gen' = [x \in DOMAIN entry_gen \cup GroupMembers |->
                                IF x \in GroupMembers THEN H + 1 ELSE entry_gen[x]]
       ELSE UNCHANGED << proxy_latency, group_probes, H, entry_gen >>
    /\ StartCall("refresh", app_settings, "fetch_proxies", None, << "fetch_config" >>)
    /\ UNCHANGED << proxies, config, real_latency_status, app_settings,
                    traffic_history_down, traffic_history_up, current_down, current_up,
                    group_names, group_state, proxy_state, focus, previous_focus,
                    show_info_popup, popup_scroll, settings_state, is_editing,
                    editing_value, error, chan_vars, real_probes, resp, ret, env_vars,
                    G, shown_gen, ingested, finished, samples, typed, faults >>

\* Right or 'l'
KeyRight ==
    /\ MainView
    /\ focus' = "Proxies"
    /\ loop_pc' = "draw"
    /\ UNCHANGED << proxies, config, real_latency_status, app_settings, proxy_latency,
                    traffic_history_down, traffic_history_up, current_down, current_up,
                    group_names, group_state, proxy_state, previous_focus,
                    show_info_popup, popup_scroll, settings_state, is_editing,
                    editing_value, error, chan_vars, task_vars, plan, ctx, req, resp,
                    ret, env_vars, hist_vars, count_vars >>

\* Left, 'h' or Esc
KeyLeft ==
    /\ MainView
    /\ focus' = "Groups"
    /\ loop_pc' = "draw"
    /\ UNCHANGED << proxies, config, real_latency_status, app_settings, proxy_latency,
                    traffic_history_down, traffic_history_up, current_down, current_up,
                    group_names, group_state, proxy_state, previous_focus,
                    show_info_popup, popup_scroll, settings_state, is_editing,
                    editing_value, error, chan_vars, task_vars, plan, ctx, req, resp,
                    ret, env_vars, hist_vars, count_vars >>

\* (mutant) Enter sends the PUT and no fetch_proxies after it
KeyEnter_NoRefetch ==
    /\ MainView
    /\ IF focus = "Proxies"
       THEN /\ IF get_selected_group_name.some /\ get_selected_proxy_name.some
               THEN StartCall("select", app_settings, "select_proxy",
                              [group |-> get_selected_group_name.v,
                               name |-> get_selected_proxy_name.v],
                              << >>)
               ELSE NoCall
            /\ UNCHANGED focus
       ELSE /\ focus' = "Proxies"
            /\ NoCall
    /\ UNCHANGED << proxies, config, real_latency_status, app_settings, proxy_latency,
                    traffic_history_down, traffic_history_up, current_down, current_up,
                    group_names, group_state, proxy_state, previous_focus,
                    show_info_popup, popup_scroll, settings_state, is_editing,
                    editing_value, error, chan_vars, task_vars, resp, ret, env_vars,
                    hist_vars, samples, typed, faults >>

\* Enter in the main view: select_proxy then fetch_proxies when the focus is
\* Proxies and a group and a member are selected; otherwise the focus moves
KeyEnter ==
    /\ MainView
    /\ IF focus = "Proxies"
       THEN /\ IF get_selected_group_name.some /\ get_selected_proxy_name.some
               THEN StartCall("select", app_settings, "select_proxy",
                              [group |-> get_selected_group_name.v,
                               name |-> get_selected_proxy_name.v],
                              << "fetch_proxies" >>)
               ELSE NoCall
            /\ UNCHANGED focus
       ELSE /\ focus' = "Proxies"
            /\ NoCall
    /\ UNCHANGED << proxies, config, real_latency_status, app_settings, proxy_latency,
                    traffic_history_down, traffic_history_up, current_down, current_up,
                    group_names, group_state, proxy_state, previous_focus,
                    show_info_popup, popup_scroll, settings_state, is_editing,
                    editing_value, error, chan_vars, task_vars, resp, ret, env_vars,
                    hist_vars, samples, typed, faults >>

(***************************************************************************)
(* Navigation.  The indices are usize: `len - 1` with len = 0 overflows,   *)
(* which panics in a build with overflow checks and wraps to usize::MAX in *)
(* a build without.  An outcome is Some(index), or None for the panic.     *)
(***************************************************************************)
\* usize::MAX; the model uses the largest integer of TLC in its place, every
\* list being shorter
USizeMax == 2147483647

\* len - 1
LenMinusOne(len) == IF len >= 1 THEN { Some(len - 1) } ELSE { None, Some(USizeMax) }

\* if i >= len - 1 { 0 } else { i + 1 }, or 0 with no selection
NextIndex(sel, len) ==
    IF sel.some
    THEN { IF last.some THEN (IF sel.v >= last.v THEN Some(0) ELSE Some(sel.v + 1)) ELSE None :
             last \in LenMinusOne(len) }
    ELSE { Some(0) }

\* if i == 0 { len - 1 } else { i - 1 }, or 0 with no selection
PreviousIndex(sel, len) ==
    IF sel.some
    THEN IF sel.v = 0 THEN LenMinusOne(len) ELSE { Some(sel.v - 1) }
    ELSE { Some(0) }

next_group == NextIndex(group_state, Len(group_names))
previous_group == PreviousIndex(group_state, Len(group_names))
\* next_proxy and previous_proxy act when the selected group has a member list
next_proxy == NextIndex(proxy_state, Len(SelectedAll.v))
previous_proxy == PreviousIndex(proxy_state, Len(SelectedAll.v))

\* the selection after a key that moves it: in the group list (the member
\* selection goes back to 0) or in the member list; a panic ends the program
Navigate(groups, members) ==
    /\ MainView
    /\ IF focus = "Groups"
       THEN \E r \in groups :
               IF r.some
               THEN /\ r.v <= MaxIndex \/ r.v = USizeMax
                    /\ group_state' = r
                    /\ proxy_state' = Some(0)
                    /\ loop_pc' = "draw"
               ELSE /\ loop_pc' = "panicked"
                    /\ UNCHANGED << group_state, proxy_state >>
       ELSE IF SelectedAll.some
       THEN \E r \in members :
               IF r.some
               THEN /\ r.v <= MaxIndex \/ r.v = USizeMax
                    /\ proxy_state' = r
                    /\ loop_pc' = "draw"
                    /\ UNCHANGED group_state
               ELSE /\ loop_pc' = "panicked"
                    /\ UNCHANGED << group_state, proxy_state >>
       ELSE /\ loop_pc' = "draw"
            /\ UNCHANGED << group_state, proxy_state >>
    /\ UNCHANGED << proxies, config, real_latency_status, app_settings, proxy_latency,
                    traffic_history_down, traffic_history_up, current_down, current_up,
                    group_names, focus, previous_focus, show_info_popup, popup_scroll,
                    settings_state, is_editing, editing_value, error, chan_vars,
                    task_vars, plan, ctx, req, resp, ret, env_vars, hist_vars,
                    count_vars >>

\* Down or 'j'
KeyDown == Navigate(next_group, IF SelectedAll.some THEN next_proxy ELSE {})

\* Up or 'k'
KeyUp == Navigate(previous_group, IF SelectedAll.some THEN previous_proxy ELSE {})

\* 'q' in the main view: return Ok(())
KeyQ ==
    /\ MainView
    /\ loop_pc' = "quit"
    /\ UNCHANGED << app_vars, chan_vars, task_vars, plan, ctx, req, resp, ret,
                    env_vars, hist_vars, count_vars >>

\* terminal.draw(..)?, event::poll(..)? or event::read()? returns an error
TerminalError ==
    /\ loop_pc \in { "draw", "poll" }
    /\ loop_pc' = "failed"
    /\ UNCHANGED << app_vars, chan_vars, task_vars, plan, ctx, req, resp, ret,
                    env_vars, hist_vars, count_vars >>

(***************************************************************************)
(* Decimal text of the numbers the settings popup edits.                   *)
(***************************************************************************)
DigitChars == << "0", "1", "2", "3", "4", "5", "6", "7", "8", "9" >>
IsDigit(c) == \E i \in 1..Len(DigitChars) : DigitChars[i] = c
DigitVal(c) == (CHOOSE i \in 1..Len(DigitChars) : DigitChars[i] = c) - 1

\* u16::to_string, u64::to_string
RECURSIVE to_string(_)
to_string(n) ==
    IF n < Len(DigitChars) THEN << DigitChars[n + 1] >>
    ELSE to_string(n \div Len(DigitChars)) \o << DigitChars[(n % Len(DigitChars)) + 1] >>

RECURSIVE DecimalValue(_)
DecimalValue(ds) ==
    IF ds = << >> THEN 0
    ELSE DecimalValue(SubSeq(ds, 1, Len(ds) - 1)) * Len(DigitChars) + DigitVal(ds[Len(ds)])

U16Max == 65535
\* the longest digit string whose value the model computes (every such value
\* is below u64::MAX)
MaxDigits == 9

\* (mutant) the value is not checked against the range of the type
ParseUnsigned_Unchecked(text, max) ==
    LET ds == IF text # << >> /\ Head(text) = "+" THEN Tail(text) ELSE text
    IN  IF /\ ds # << >>
           /\ \A i \in 1..Len(ds) : IsDigit(ds[i])
           /\ Len(ds) <= MaxDigits
        THEN Some(DecimalValue(ds))
        ELSE None

\* str::parse::<u16> and str::parse::<u64>: an optional '+', then one or more
\* digits, the value within the type
ParseUnsigned(text, max) ==
    LET ds == IF text # << >> /\ Head(text) = "+" THEN Tail(text) ELSE text
    IN  IF /\ ds # << >>
           /\ \A i \in 1..Len(ds) : IsDigit(ds[i])
           /\ Len(ds) <= MaxDigits
           /\ (max > 0 => DecimalValue(ds) <= max)
        THEN Some(DecimalValue(ds))
        ELSE None
ParseU16(text) == ParseUnsigned(text, U16Max)
ParseU64(text) == ParseUnsigned(text, 0)

(***************************************************************************)
(* The settings view.                                                      *)
(***************************************************************************)
settings_items ==
    << "BaseUrl", "ApiSecret", "TestUrl", "TestTimeout", "Mode", "Tun", "MixedPort",
       "LogLevel", "AllowLan", "BindAddress", "Ipv6" >>

SelectedEntry ==
    IF settings_state.some THEN Get(settings_items, settings_state.v) ELSE None

Editable == { "MixedPort", "BindAddress", "BaseUrl", "ApiSecret", "TestUrl", "TestTimeout" }
LocalEntries == { "BaseUrl", "ApiSecret", "TestUrl", "TestTimeout" }

LocalValue(entry) ==
    CASE entry = "BaseUrl" -> app_settings.base_url
      [] entry = "ApiSecret" -> app_settings.api_secret
      [] entry = "TestUrl" -> app_settings.test_url
      [] entry = "TestTimeout" -> to_string(app_settings.test_timeout)
      [] OTHER -> << >>

\* the edit buffer when Enter opens the popup on an editable entry
EditStartValue(entry) ==
    IF config.some
    THEN CASE entry = "MixedPort" -> to_string(config.v.mixed_port)
           [] entry = "BindAddress" -> config.v.bind_address
           [] OTHER -> LocalValue(entry)
    ELSE IF entry \in LocalEntries THEN LocalValue(entry)
    ELSE editing_value

NoPatch == [field |-> "none", value |-> FALSE]
HasPatch(b) == b.field # "none"

\* (mutant) the mode cycle has two elements and the log-level cycle stops at
\* its last one
SettingPatch_ShortCycles(entry) ==
    IF ~config.some THEN NoPatch
    ELSE CASE entry = "Mode" ->
                [field |-> "mode",
                 value |-> CASE config.v.mode = "rule" -> "global"
                             [] OTHER -> "rule"]
           [] entry = "Tun" -> [field |-> "tun", value |-> ~config.v.tun.enable]
           [] entry = "LogLevel" ->
                [field |-> "log-level",
                 value |-> CASE config.v.log_level = "info" -> "warning"
                             [] config.v.log_level = "warning" -> "error"
                             [] config.v.log_level = "error" -> "debug"
                             [] OTHER -> "silent"]
           [] entry = "AllowLan" -> [field |-> "allow-lan", value |-> ~config.v.allow_lan]
           [] entry = "Ipv6" -> [field |-> "ipv6", value |-> ~config.v.ipv6]
           [] OTHER -> NoPatch

\* handle_setting_change: the PATCH body for Enter on a toggle or cycle entry
SettingPatch(entry) ==
    IF ~config.some THEN NoPatch
    ELSE CASE entry = "Mode" ->
                [field |-> "mode",
                 value |-> CASE config.v.mode = "rule" -> "global"
                             [] config.v.mode = "global" -> "direct"
                             [] OTHER -> "rule"]
           [] entry = "Tun" -> [field |-> "tun", value |-> ~config.v.tun.enable]
           [] entry = "LogLevel" ->
                [field |-> "log-level",
                 value |-> CASE config.v.log_level = "info" -> "warning"
                             [] config.v.log_level = "warning" -> "error"
                             [] config.v.log_level = "error" -> "debug"
                             [] config.v.log_level = "debug" -> "silent"
                             [] OTHER -> "info"]
           [] entry = "AllowLan" -> [field |-> "allow-lan", value |-> ~config.v.allow_lan]
           [] entry = "Ipv6" -> [field |-> "ipv6", value |-> ~config.v.ipv6]
           [] OTHER -> NoPatch

\* commit_edit: the PATCH body for a daemon entry
EditPatch(entry) ==
    CASE entry = "MixedPort" ->
            IF ParseU16(editing_value).some
            THEN [field |-> "mixed-port", value |-> ParseU16(editing_value).v]
            ELSE NoPatch
      [] entry = "BindAddress" -> [field |-> "bind-address", value |-> editing_value]
      [] OTHER -> NoPatch

\* (mutant) the base URL and the secret are written only after their fetch
EditSettings_Deferred(entry) ==
    CASE entry = "TestUrl" -> [app_settings EXCEPT !.test_url = editing_value]
      [] entry = "TestTimeout" ->
            IF ParseU64(editing_value).some
            THEN [app_settings EXCEPT !.test_timeout = ParseU64(editing_value).v]
            ELSE app_settings
      [] OTHER -> app_settings

\* commit_edit: the local settings after the commit
EditSettings(entry) ==
    CASE entry = "BaseUrl" -> [app_settings EXCEPT !.base_url = editing_value]
      [] entry = "ApiSecret" -> [app_settings EXCEPT !.api_secret = editing_value]
      [] entry = "TestUrl" -> [app_settings EXCEPT !.test_url = editing_value]
      [] entry = "TestTimeout" ->
            IF ParseU64(editing_value).some
            THEN [app_settings EXCEPT !.test_timeout = ParseU64(editing_value).v]
            ELSE app_settings
      [] OTHER -> app_settings

SettingsView == loop_pc = "poll" /\ ~is_editing /\ ~show_info_popup /\ focus = "Settings"

\* (mutant) 's' opens the settings view without remembering the focus
KeyS_NoRemember ==
    /\ MainView
    /\ focus' = "Settings"
    /\ NoCall
    /\ UNCHANGED << proxies, config, real_latency_status, app_settings, proxy_latency,
                    traffic_history_down, traffic_history_up, current_down, current_up,
                    group_names, group_state, proxy_state, previous_focus,
                    show_info_popup, popup_scroll, settings_state, is_editing,
                    editing_value, error, chan_vars, task_vars, resp, ret, env_vars,
                    hist_vars, samples, typed, faults >>

\* 's' in the main view
KeyS ==
    /\ MainView
    /\ previous_focus' = focus
    /\ focus' = "Settings"
    /\ NoCall
    /\ UNCHANGED << proxies, config, real_latency_status, app_settings, proxy_latency,
                    traffic_history_down, traffic_history_up, current_down, current_up,
                    group_names, group_state, proxy_state, show_info_popup, popup_scroll,
                    settings_state, is_editing, editing_value, error, chan_vars,
                    task_vars, resp, ret, env_vars, hist_vars, samples, typed, faults >>

\* Esc, 'q' or 's' in the settings view
KeySettingsClose ==
    /\ SettingsView
    /\ focus' = previous_focus
    /\ NoCall
    /\ UNCHANGED << proxies, config, real_latency_status, app_settings, proxy_latency,
                    traffic_history_down, traffic_history_up, current_down, current_up,
                    group_names, group_state, proxy_state, previous_focus,
                    show_info_popup, popup_scroll, settings_state, is_editing,
                    editing_value, error, chan_vars, task_vars, resp, ret, env_vars,
                    hist_vars, samples, typed, faults >>

next_setting(sel) ==
    IF sel.some
    THEN IF sel.v >= Len(settings_items) - 1 THEN Some(0) ELSE Some(sel.v + 1)
    ELSE Some(0)
previous_setting(sel) ==
    IF sel.some
    THEN IF sel.v = 0 THEN Some(Len(settings_items) - 1) ELSE Some(sel.v - 1)
    ELSE Some(0)

\* 'j'/Down and 'k'/Up in the settings view
KeySettingsMove ==
    /\ SettingsView
    /\ \/ settings_state' = next_setting(settings_state)
       \/ settings_state' = previous_setting(settings_state)
    /\ NoCall
    /\ UNCHANGED << proxies, config, real_latency_status, app_settings, proxy_latency,
                    traffic_history_down, traffic_history_up, current_down, current_up,
                    group_names, group_state, proxy_state, focus, previous_focus,
                    show_info_popup, popup_scroll, is_editing, editing_value, error,
                    chan_vars, task_vars, resp, ret, env_vars, hist_vars, samples,
                    typed, faults >>

\* Enter in the settings view: open the edit popup, or toggle/cycle
KeySettingsEnter ==
    /\ SettingsView
    /\ SelectedEntry.some
    /\ LET entry == SelectedEntry.v
       IN  IF entry \in Editable
           THEN /\ typed < MaxTyped
                /\ typed' = typed + 1
                /\ is_editing' = TRUE
                /\ editing_value' = EditStartValue(entry)
                /\ NoCall
           ELSE /\ UNCHANGED << is_editing, editing_value, typed >>
                /\ IF HasPatch(SettingPatch(entry))
                   THEN StartCall("setting", app_settings, "patch", SettingPatch(entry),
                                  << "fetch_config" >>)
                   ELSE NoCall
    /\ UNCHANGED << proxies, config, real_latency_status, app_settings, proxy_latency,
                    traffic_history_down, traffic_history_up, current_down, current_up,
                    group_names, group_state, proxy_state, focus, previous_focus,
                    show_info_popup, popup_scroll, settings_state, error, chan_vars,
                    task_vars, resp, ret, env_vars, hist_vars, samples, faults >>

(***************************************************************************)
(* The edit popup.                                                         *)
(***************************************************************************)
Editing == loop_pc = "poll" /\ is_editing

TypedChars == { "1", "x" }

\* Char(c): editing_value.push(c); Backspace: editing_value.pop()
EditType ==
    /\ Editing
    /\ typed < MaxTyped
    /\ typed' = typed + 1
    /\ \/ \E c \in TypedChars : editing_value' = Append(editing_value, c)
       \/ editing_value' = SubSeq(editing_value, 1, Len(editing_value) - 1)
    /\ loop_pc' = "draw"
    /\ UNCHANGED << proxies, config, real_latency_status, app_settings, proxy_latency,
                    traffic_history_down, traffic_history_up, current_down, current_up,
                    group_names, group_state, proxy_state, focus, previous_focus,
                    show_info_popup, popup_scroll, settings_state, is_editing, error,
                    chan_vars, task_vars, plan, ctx, req, resp, ret, env_vars,
                    hist_vars, samples, calls, faults >>

\* (mutant) Esc also closes the settings view
EditEsc_ClosesView ==
    /\ Editing
    /\ is_editing' = FALSE
    /\ focus' = previous_focus
    /\ NoCall
    /\ UNCHANGED << proxies, config, real_latency_status, app_settings, proxy_latency,
                    traffic_history_down, traffic_history_up, current_down, current_up,
                    group_names, group_state, proxy_state, previous_focus,
                    show_info_popup, popup_scroll, settings_state, editing_value, error,
                    chan_vars, task_vars, resp, ret, env_vars, hist_vars, samples,
                    typed, faults >>

\* Esc
EditEsc ==
    /\ Editing
    /\ is_editing' = FALSE
    /\ NoCall
    /\ UNCHANGED << proxies, config, real_latency_status, app_settings, proxy_latency,
                    traffic_history_down, traffic_history_up, current_down, current_up,
                    group_names, group_state, proxy_state, focus, previous_focus,
                    show_info_popup, popup_scroll, settings_state, editing_value, error,
                    chan_vars, task_vars, resp, ret, env_vars, hist_vars, samples,
                    typed, faults >>

\* save_app_settings: the file holds the settings, unless it cannot be written
SaveAppSettings(settings) ==
    IF settings_file = NoHome THEN settings_file' = settings_file
    ELSE \/ settings_file' = Some(settings)
         \/ settings_file' = settings_file

\* Enter: commit_edit, then is_editing = false
EditEnter ==
    /\ Editing
    /\ LET entry == IF SelectedEntry.some THEN SelectedEntry.v ELSE "none"
           saved == entry \in { "BaseUrl", "ApiSecret", "TestUrl" }
                    \/ (entry = "TestTimeout" /\ ParseU64(editing_value).some)
       IN  /\ app_settings' = EditSettings(entry)
           /\ IF saved THEN SaveAppSettings(EditSettings(entry))
              ELSE UNCHANGED settings_file
           /\ IF HasPatch(EditPatch(entry))
              THEN /\ StartCall("edit_update", app_settings, "patch", EditPatch(entry),
                                << "fetch_config" >>)
                   /\ UNCHANGED << is_editing, real_latency_status, real_probes, G >>
              ELSE IF entry \in { "BaseUrl", "ApiSecret" }
              THEN /\ StartCall("edit_fetch", EditSettings(entry), "fetch_proxies", None,
                                << "fetch_config" >>)
                   /\ UNCHANGED << is_editing, real_latency_status, real_probes, G >>
              ELSE /\ NoCall
                   /\ is_editing' = FALSE
                   /\ IF entry = "TestUrl"
                      THEN /\ G < MaxTriggers
                           /\ real_latency_status' = Testing
                           /\ real_probes' =
                                  real_probes \cup { SpawnedProbe(EditSettings(entry), G + 1) }
                           /\ G' = G + 1
                      ELSE UNCHANGED << real_latency_status, real_probes, G >>
    /\ UNCHANGED << proxies, config, proxy_latency, traffic_history_down,
                    traffic_history_up, current_down, current_up, group_names,
                    group_state, proxy_state, focus, previous_focus, show_info_popup,
                    popup_scroll, settings_state, editing_value, error, chan_vars,
                    group_probes, resp, ret, d_config, d_proxies, H, shown_gen,
                    entry_gen, ingested, finished, samples, typed, faults >>

(***************************************************************************)
(* The info popup.  Its keys are handled before those of any view, after   *)
(* those of the edit popup.                                                *)
(***************************************************************************)
PopupView == loop_pc = "poll" /\ ~is_editing /\ show_info_popup

\* u16::saturating_add(1) and u16::saturating_sub(1)
saturating_add(x) == IF x >= U16Max THEN U16Max ELSE x + 1
saturating_sub(x) == IF x = 0 THEN 0 ELSE x - 1

\* (mutant) 'i' opens the popup whatever the focus
KeyI_AnyFocus ==
    /\ MainView
    /\ show_info_popup' = TRUE
    /\ loop_pc' = "draw"
    /\ UNCHANGED << proxies, config, real_latency_status, app_settings, proxy_latency,
                    traffic_history_down, traffic_history_up, current_down, current_up,
                    group_names, group_state, proxy_state, focus, previous_focus,
                    popup_scroll, settings_state, is_editing, editing_value, error,
                    chan_vars, task_vars, plan, ctx, req, resp, ret, env_vars,
                    hist_vars, count_vars >>

\* 'i' in the main view: the popup opens when the focus is Proxies
KeyI ==
    /\ MainView
    /\ show_info_popup' = IF focus = "Proxies" THEN TRUE ELSE show_info_popup
    /\ loop_pc' = "draw"
    /\ UNCHANGED << proxies, config, real_latency_status, app_settings, proxy_latency,
                    traffic_history_down, traffic_history_up, current_down, current_up,
                    group_names, group_state, proxy_state, focus, previous_focus,
                    popup_scroll, settings_state, is_editing, editing_value, error,
                    chan_vars, task_vars, plan, ctx, req, resp, ret, env_vars,
                    hist_vars, count_vars >>

\* Esc, 'q' or 'i' in the popup
PopupClose ==
    /\ PopupView
    /\ show_info_popup' = FALSE
    /\ popup_scroll' = 0
    /\ loop_pc' = "draw"
    /\ UNCHANGED << proxies, config, real_latency_status, app_settings, proxy_latency,
                    traffic_history_down, traffic_history_up, current_down, current_up,
                    group_names, group_state, proxy_state, focus, previous_focus,
                    settings_state, is_editing, editing_value, error, chan_vars,
                    task_vars, plan, ctx, req, resp, ret, env_vars, hist_vars,
                    count_vars >>

\* 'j'/Down and 'k'/Up in the popup: scroll_popup_down, scroll_popup_up
PopupScroll ==
    /\ PopupView
    /\ \/ /\ popup_scroll < MaxScroll
          /\ popup_scroll' = saturating_add(popup_scroll)
       \/ popup_scroll' = saturating_sub(popup_scroll)
    /\ loop_pc' = "draw"
    /\ UNCHANGED << proxies, config, real_latency_status, app_settings, proxy_latency,
                    traffic_history_down, traffic_history_up, current_down, current_up,
                    group_names, group_state, proxy_state, focus, previous_focus,
                    show_info_popup, settings_state, is_editing, editing_value, error,
                    chan_vars, task_vars, plan, ctx, req, resp, ret, env_vars,
                    hist_vars, count_vars >>

(***************************************************************************)
(* Traffic.  The poller task sends one sample per interval and waits while *)
(* the channel is full; draw_overview shows the newest width samples.      *)
(***************************************************************************)
TrafficVals == { 1, 2 }

TrafficPoll ==
    /\ samples < MaxSamples
    /\ Len(traffic_rx) < TrafficChanCap
    /\ \E d \in TrafficVals, u \in TrafficVals :
          traffic_rx' = Append(traffic_rx, [down |-> d, up |-> u])
    /\ samples' = samples + 1
    /\ UNCHANGED << app_vars, real_latency_rx, proxy_test_rx, task_vars, loop_vars,
                    env_vars, hist_vars, calls, typed, faults >>

\* the last n elements of a sequence, in order
LastN(h, n) ==
    IF Len(h) <= n THEN h ELSE SubSeq(h, Len(h) - n + 1, Len(h))

\* history.iter().rev().take(width).rev().collect()
SparklineData(h, width) == LastN(h, width)

(***************************************************************************)
(* Single-target latency test: the loop, the 't' key and the probe tasks.  *)
(***************************************************************************)
NextLatency ==
    \/ Tick
    \/ PollTimeout
    \/ KeyT
    \/ ProbeDone
    \/ DaemonReply
    \/ HandleReply

SpecLatency == Init /\ [][NextLatency]_vars

(***************************************************************************)
(* Group fan-out test: the loop, the focus keys, 'r' and the member tasks. *)
(***************************************************************************)
NextFanout ==
    \/ Tick
    \/ PollTimeout
    \/ KeyR
    \/ KeyRight
    \/ GroupProbeDone
    \/ DaemonReply
    \/ HandleReply

SpecFanout == Init /\ [][NextFanout]_vars

(***************************************************************************)
(* Traffic ingestion: the loop and the poller.                             *)
(***************************************************************************)
NextTraffic ==
    \/ Tick
    \/ PollTimeout
    \/ TrafficPoll
    \/ DaemonReply
    \/ HandleReply

SpecTraffic == Init /\ [][NextTraffic]_vars

(***************************************************************************)
(* Daemon configuration: the loop, refresh, the settings view and the edit *)
(* popup.                                                                  *)
(***************************************************************************)
NextConfig ==
    \/ Tick
    \/ PollTimeout
    \/ KeyR
    \/ KeyS
    \/ KeySettingsClose
    \/ KeySettingsMove
    \/ KeySettingsEnter
    \/ EditType
    \/ EditEsc
    \/ EditEnter
    \/ DaemonReply
    \/ HandleReply

SpecConfig == Init /\ [][NextConfig]_vars

(***************************************************************************)
(* Control calls from the loop: refresh, selection, the settings toggles,  *)
(* and the ways run_app returns.                                           *)
(***************************************************************************)
NextLoop ==
    \/ Tick
    \/ PollTimeout
    \/ KeyR
    \/ KeyRight
    \/ KeyEnter
    \/ KeyS
    \/ KeySettingsClose
    \/ KeySettingsMove
    \/ KeySettingsEnter
    \/ KeyQ
    \/ TerminalError
    \/ ProbeDone
    \/ DaemonReply
    \/ HandleReply

SpecLoop == Init /\ [][NextLoop]_vars

(***************************************************************************)
(* Requests built from the settings of the moment: every control call and  *)
(* the probe, with the API secret edited in the settings view.             *)
(***************************************************************************)
NextAuth ==
    \/ Tick
    \/ PollTimeout
    \/ KeyR
    \/ KeyRight
    \/ KeyEnter
    \/ KeyS
    \/ KeySettingsMove
    \/ KeySettingsEnter
    \/ EditType
    \/ EditEnter
    \/ DaemonReply
    \/ HandleReply

SpecAuth == InitEnv /\ [][NextAuth]_vars

(***************************************************************************)
(* Startup from any settings file: main's fetches and its latency test.    *)
(***************************************************************************)
NextStartup ==
    \/ Tick
    \/ PollTimeout
    \/ ProbeDone
    \/ DaemonReply
    \/ HandleReply

SpecLoad == InitLoad /\ [][NextStartup]_vars

(***************************************************************************)
(* Rendering of latencies (src/src/ui.rs).  The colour of the gauge of the *)
(* single-target test and of the latency cell of a member row.             *)
(***************************************************************************)
\* draw_overview: match &app.real_latency_status
GaugeColor(status) ==
    CASE status.tag = "Pending" -> "Gray"
      [] status.tag = "Testing" -> "Yellow"
      [] status.tag = "Success" ->
            IF status.ms < 200 THEN "Green"
            ELSE IF status.ms < 500 THEN "Yellow"
            ELSE "Red"
      [] OTHER -> "Red"

\* app.proxy_latency.get(name).copied().flatten()
RowLatency(map, name) == IF name \in DOMAIN map THEN map[name] ELSE None

\* (mutant) the comparisons of the row include the thresholds
RowLatencyColor_Inclusive(latency) ==
    IF latency.some
    THEN IF latency.v <= 200 THEN "Green"
         ELSE IF latency.v <= 500 THEN "Yellow"
         ELSE "Red"
    ELSE "Gray"

\* draw_proxies: the style of the latency cell
RowLatencyColor(latency) ==
    IF latency.some
    THEN IF latency.v < 200 THEN "Green"
         ELSE IF latency.v < 500 THEN "Yellow"
         ELSE "Red"
    ELSE "Gray"

\* Latencies the views are drawn with: a running program after startup, a
\* sweep of group G1 and a single-target test, the measured delays drawn from
\* RenderMs.
RenderMs == { 0, 199, 200, 499, 500, 501 }
RenderStatuses ==
    { Pending, Testing, Failed("Timeout") } \cup { Success(ms) : ms \in RenderMs }
RenderEntries == { None } \cup { Some(ms) : ms \in RenderMs }

InitRender ==
    /\ proxies = DaemonProxies
    /\ config = Some(DaemonConfig)
    /\ real_latency_status \in RenderStatuses
    /\ app_settings = DefaultSettings
    /\ proxy_latency \in [{ "A", "B" } -> RenderEntries]
    /\ traffic_history_down = << >>
    /\ traffic_history_up = << >>
    /\ current_down = 0
    /\ current_up = 0
    /\ group_names = GroupNames(DaemonProxies)
    /\ group_state = Some(0)
    /\ proxy_state = Some(0)
    /\ focus = "Proxies"
    /\ previous_focus = "Groups"
    /\ show_info_popup = FALSE
    /\ popup_scroll = 0
    /\ settings_state = Some(0)
    /\ is_editing = FALSE
    /\ editing_value = << >>
    /\ error = NoStr
    /\ real_latency_rx = << >>
    /\ proxy_test_rx = << >>
    /\ traffic_rx = << >>
    /\ real_probes = {}
    /\ group_probes = {}
    /\ loop_pc = "draw"
    /\ plan = << >>
    /\ ctx = "none"
    /\ req = NoReq
    /\ resp = NoResp
    /\ ret = NoRet
    /\ d_config = DaemonConfig
    /\ d_proxies = DaemonProxies
    /\ settings_file = None
    /\ G = 1
    /\ H = 1
    /\ shown_gen = 1
    /\ entry_gen = [m \in { "A", "B" } |-> 1]
    /\ ingested = << >>
    /\ finished = {}
    /\ samples = 0
    /\ calls = 0
    /\ typed = 0
    /\ faults = 0

NextRender ==
    \/ Tick
    \/ PollTimeout
    \/ KeyLeft
    \/ KeyRight

SpecRender == InitRender /\ [][NextRender]_vars

(***************************************************************************)
(* The background tasks together: the single-target probe of startup and   *)
(* the traffic poller, with the loop.                                      *)
(***************************************************************************)
NextBackground ==
    \/ Tick
    \/ PollTimeout
    \/ ProbeDone
    \/ TrafficPoll
    \/ DaemonReply
    \/ HandleReply

SpecBackground == Init /\ [][NextBackground]_vars

(***************************************************************************)
(* The group list and the selection: refresh, navigation, and a daemon     *)
(* whose groups change.                                                    *)
(***************************************************************************)
NextGroups ==
    \/ Tick
    \/ PollTimeout
    \/ KeyR
    \/ KeyRight
    \/ KeyLeft
    \/ KeyDown
    \/ KeyUp
    \/ DaemonReload
    \/ DaemonReply
    \/ HandleReply

SpecGroups == Init /\ [][NextGroups]_vars

(***************************************************************************)
(* Progress of the single-target test, with control calls made from the    *)
(* loop.  The runtime keeps running the loop and the probe tasks, and each *)
(* probe request carries a timeout, so these steps are taken when they can *)
(* be.  The control client is built with no timeout                        *)
(* (Client::builder().build()): nothing makes the daemon's answer arrive.  *)
(***************************************************************************)
NextLive ==
    \/ Tick
    \/ PollTimeout
    \/ KeyT
    \/ KeyR
    \/ ProbeDone
    \/ DaemonReply
    \/ HandleReply

SpecLive ==
    /\ Init
    /\ [][NextLive]_vars
    /\ WF_vars(Tick)
    /\ WF_vars(PollTimeout)
    /\ WF_vars(ProbeDone)
    /\ WF_vars(HandleReply)

(***************************************************************************)
(* The results channel of the single-target test near its capacity: after  *)
(* startup's test was received, 't' was pressed while no probe answered,   *)
(* then all but LateProbes of the probes answered during one poll.         *)
(***************************************************************************)
QueuedResults(o, first, last) ==
    [i \in 1..(last - first + 1) |->
        [status |-> ProbeMessage(o), gen |-> first + i - 1, outcome |-> o]]

InitChannel ==
    /\ proxies = DaemonProxies
    /\ config = Some(DaemonConfig)
    /\ real_latency_status = Testing
    /\ app_settings = DefaultSettings
    /\ proxy_latency = << >>
    /\ traffic_history_down = << >>
    /\ traffic_history_up = << >>
    /\ current_down = 0
    /\ current_up = 0
    /\ group_names = GroupNames(DaemonProxies)
    /\ group_state = Some(0)
    /\ proxy_state = Some(0)
    /\ focus = "Groups"
    /\ previous_focus = "Groups"
    /\ show_info_popup = FALSE
    /\ popup_scroll = 0
    /\ settings_state = Some(0)
    /\ is_editing = FALSE
    /\ editing_value = << >>
    /\ error = NoStr
    /\ \E o \in { x \in ProbeOutcomes : x.ms # 600 /\ x.kind \in { "resp", "timeout" } } :
          real_latency_rx = QueuedResults(o, 2, LatencyChanCap)
    /\ proxy_test_rx = << >>
    /\ traffic_rx = << >>
    /\ real_probes =
          { SpawnedProbe(DefaultSettings, LatencyChanCap + i) : i \in 1..LateProbes }
    /\ group_probes = {}
    /\ loop_pc = "poll"
    /\ plan = << >>
    /\ ctx = "none"
    /\ req = NoReq
    /\ resp = NoResp
    /\ ret = NoRet
    /\ d_config = DaemonConfig
    /\ d_proxies = DaemonProxies
    /\ settings_file = None
    /\ G = LatencyChanCap + LateProbes
    /\ H = 0
    /\ shown_gen = 1
    /\ entry_gen = << >>
    /\ ingested = << >>
    /\ finished = {}
    /\ samples = 0
    /\ calls = 0
    /\ typed = 0
    /\ faults = 0

NextChannel ==
    \/ Tick
    \/ PollTimeout
    \/ ProbeDone

SpecChannel == InitChannel /\ [][NextChannel]_vars

(***************************************************************************)
(* The toggle and cycle entries of the settings view, against a daemon     *)
(* whose configuration may hold any mode and log level.                    *)
(***************************************************************************)
NextCycle ==
    \/ Tick
    \/ PollTimeout
    \/ KeyS
    \/ KeySettingsMove
    \/ KeySettingsEnter
    \/ DaemonReconfigure
    \/ DaemonReply
    \/ HandleReply

SpecCycle == Init /\ [][NextCycle]_vars

(***************************************************************************)
(* The views and the popups: the focus keys, the settings view, the edit   *)
(* popup and the info popup.                                               *)
(***************************************************************************)
NextViews ==
    \/ Tick
    \/ PollTimeout
    \/ KeyRight
    \/ KeyLeft
    \/ KeyI
    \/ PopupClose
    \/ PopupScroll
    \/ KeyS
    \/ KeySettingsClose
    \/ KeySettingsMove
    \/ KeySettingsEnter
    \/ EditEsc
    \/ EditEnter
    \/ DaemonReply
    \/ HandleReply

SpecViews == Init /\ [][NextViews]_vars

(***************************************************************************)
(* Claims.                                                                 *)
(***************************************************************************)
\* a pass of the loop from draw to event::poll
DrainStep == loop_pc = "draw" /\ loop_pc' = "poll"

\* C1: when the loop receives the result of a single-target test that a later
\* trigger has superseded, the displayed latency status is left as it was; when
\* it receives the result of the latest test, the status becomes that result.
C1_StaleResultDiscarded ==
    [][(DrainStep /\ real_latency_rx # << >>) =>
          IF Head(real_latency_rx).gen < G
          THEN real_latency_status' = real_latency_status
          ELSE real_latency_status' = Head(real_latency_rx).status]_vars

\* C6: after the drains of a pass of the loop, no single-target latency result
\* is left in the channel, however many were queued.
C6_LatencyChannelDrained ==
    [][DrainStep => real_latency_rx' = << >>]_vars

\* C2: the generation behind a member's entry never goes down: a result of a
\* superseded sweep is discarded, it does not replace what a newer sweep wrote.
C2_NoStaleOverwrite ==
    [][\A m \in DOMAIN entry_gen :
          m \in DOMAIN entry_gen' /\ entry_gen'[m] >= entry_gen[m]]_vars

\* all member probes have ended and their results have been received
FanoutQuiet == group_probes = {} /\ proxy_test_rx = << >>

\* C8: what is recorded under a member's name is a delay measured by that
\* member's own probe, whatever the other probes ended in; and once a sweep is
\* over, every member of it whose probe measured a delay has a recorded delay
\* and every member's probe has run to its end.
C8_FanoutIsolation ==
    /\ \A m \in DOMAIN proxy_latency :
          proxy_latency[m].some =>
              [gen |-> entry_gen[m], name |-> m, kind |-> "delay",
               ms |-> proxy_latency[m].v] \in finished
    /\ FanoutQuiet =>
          /\ \A f \in finished :
                (f.kind = "delay" /\ f.gen = H) =>
                    f.name \in DOMAIN proxy_latency /\ proxy_latency[f.name].some
          /\ \A m \in DOMAIN entry_gen :
                entry_gen[m] = H => \E f \in finished : f.gen = H /\ f.name = m

\* a sweep is over in which one member's probe failed and another member's
\* delay is recorded
C8_Witness ==
    /\ FanoutQuiet
    /\ \E f, g \in finished :
          /\ f.gen = H /\ g.gen = H /\ f.name # g.name
          /\ f.kind # "delay" /\ g.kind = "delay"
          /\ g.name \in DOMAIN proxy_latency
          /\ proxy_latency[g.name] = Some(g.ms)

Downs(seq) == [i \in 1..Len(seq) |-> seq[i].down]
Ups(seq) == [i \in 1..Len(seq) |-> seq[i].up]

\* C7: each traffic history holds at most HistoryCap samples, and they are the
\* newest samples received, in the order received (the oldest leaves first);
\* what the chart of a given width shows is again the newest of them, in order.
C7_HistoryBoundedFifo ==
    /\ Len(traffic_history_down) <= HistoryCap
    /\ Len(traffic_history_up) <= HistoryCap
    /\ traffic_history_down = LastN(Downs(ingested), HistoryCap)
    /\ traffic_history_up = LastN(Ups(ingested), HistoryCap)
    /\ \A w \in 0..HistoryCap :
          /\ SparklineData(traffic_history_down, w) = LastN(Downs(ingested), w)
          /\ SparklineData(traffic_history_up, w) = LastN(Ups(ingested), w)

\* a full history has let its oldest sample go, and that sample differed from
\* the one that is now the oldest
C7_Witness ==
    /\ Len(ingested) > HistoryCap
    /\ Len(traffic_history_down) = HistoryCap
    /\ ingested[Len(ingested) - HistoryCap].down # traffic_history_down[1]
    /\ ingested[Len(ingested) - HistoryCap].up # traffic_history_up[1]

\* the response held in resp is a 2xx answer whose body deserialized
Usable(r) == r.conn = "ok" /\ is_success(r.status) /\ r.good

\* C3: when update_config has returned Ok, the cached config is the config the
\* daemon sent in answer to the GET /configs of that call.
C3_ConfirmByRefetch ==
    (loop_pc = "draw" /\ ret.update_config = "Ok") =>
        (ret.of = "fetch_config" /\ Usable(resp) /\ config = Some(resp.body))

\* C4: a step changes the cached config only when fetch_config handles a usable
\* response to GET /configs, and the config is then the whole body received.
C4_ConfigOnlyFromFetch ==
    [][config' # config =>
          /\ loop_pc = "resume"
          /\ req.op = "fetch_config"
          /\ Usable(resp)
          /\ config' = Some(resp.body)]_vars

\* update_config has sent its PATCH, the daemon has applied it, and the cached
\* config still holds the value from before the PATCH
C4_Witness ==
    /\ InUpdate
    /\ loop_pc = "await"
    /\ req.op = "fetch_config"
    /\ ret.of = "patch"
    /\ Usable([resp EXCEPT !.good = TRUE])
    /\ config.some
    /\ d_config # config.v

\* C5: once the loop runs, it is drawing and draining or polling for input;
\* it is never waiting for the answer to a control call.
C5_LoopNeverAwaitsNetwork ==
    ctx # "startup" => loop_pc \in { "draw", "poll" }

\* C9: when fetch_proxies or fetch_config handles a response that is a
\* connection error, a non-2xx status or a body that does not deserialize, the
\* stored proxy map, the group list and the cached config stay as they were.
C9_FailedFetchKeepsSnapshot ==
    [][(/\ loop_pc = "resume"
        /\ req.op \in { "fetch_proxies", "fetch_config" }
        /\ ~Usable(resp)) =>
          UNCHANGED << proxies, group_names, config >>]_vars

\* a fetch_proxies has failed after a map was stored, and the map is still there
C9_Witness ==
    /\ loop_pc # "resume"
    /\ ret.of = "fetch_proxies"
    /\ ~Usable(resp)
    /\ error # NoStr
    /\ proxies = d_proxies
    /\ group_names # << >>
    /\ config.some

\* C10: fetch_proxies and fetch_config return Err when the response is not a
\* usable one, and return Ok only with the body received stored.
C10_FetchErrorReported ==
    /\ (loop_pc # "resume" /\ ret.of = "fetch_proxies") =>
          /\ ret.fetch_proxies = "Ok" <=> Usable(resp)
          /\ Usable(resp) => proxies = resp.body
    /\ (loop_pc # "resume" /\ ret.of = "fetch_config") =>
          /\ ret.fetch_config = "Ok" <=> Usable(resp)
          /\ Usable(resp) => config = Some(resp.body)

\* run_app has returned
Returned == loop_pc \in { "quit", "failed" }

\* C11: the step that handles the response to a control call, whatever the
\* response, sends the handler's next call or goes on to the next draw; run_app
\* returns only on 'q' in the main view or on an error of the terminal (draw,
\* poll, read), and a probe that ends leaves the loop where it is.
C11_LoopSurvivesNetworkFailure ==
    [][/\ (loop_pc = "resume" /\ loop_pc' # "resume") => loop_pc' \in { "await", "draw" }
       /\ (loop_pc' = "quit" /\ loop_pc # "quit") => MainView
       /\ (loop_pc' = "failed" /\ loop_pc # "failed") => loop_pc \in { "draw", "poll" }
       /\ (real_probes' \subseteq real_probes /\ real_probes' # real_probes) =>
              loop_pc' = loop_pc]_vars

\* a handler's PATCH failed to connect and the single-target probe failed, and
\* the loop is about to draw
C11_Witness ==
    /\ loop_pc = "draw"
    /\ ret.update_config = "Err"
    /\ resp.conn = "err"
    /\ real_latency_status.tag = "Failed"

\* the credential header a request carries when it is attached if and only if
\* the API secret is not empty
BearerOf(settings) ==
    IF settings.api_secret # << >> THEN Some(settings.api_secret) ELSE None

\* the control request in flight carries the header for the secret as it is
\* (the loop changes no setting while it waits for the answer)
ControlAuthMatches ==
    loop_pc \in { "await", "resume" } =>
        /\ req.op \in { "fetch_proxies", "fetch_config", "patch", "select_proxy" }
        /\ req.auth = BearerOf(app_settings)

FailureClass(msg) ==
    CASE msg = "Timeout" -> "timeout"
      [] msg = "Conn Err" -> "connect"
      [] OTHER -> "other"

\* C13: a message sent by a probe is Success(elapsed ms) exactly when its
\* request was answered with a status from 200 to 399; a request that timed
\* out gives Failed classified as timeout, a connection failure (that is not a
\* timeout) Failed classified as connect error, and every other outcome, a
\* response with another status included, Failed classified as other.
C13_ProbeClassification ==
    \A i \in 1..Len(real_latency_rx) :
        LET m == real_latency_rx[i]
            o == m.outcome
            ok == o.kind = "resp" /\ o.status >= 200 /\ o.status <= 399
        IN  /\ m.status.tag \in { "Success", "Failed" }
            /\ m.status.tag = "Success" <=> ok
            /\ ok => m.status.ms = o.ms
            /\ ~ok =>
                  FailureClass(m.status.msg) =
                      CASE o.kind \in { "timeout", "connect_timeout" } -> "timeout"
                        [] o.kind = "connect" -> "connect"
                        [] OTHER -> "other"

\* the channel holds the result of a probe answered with a redirection and the
\* result of a probe answered 404
C13_Witness ==
    \E i, j \in 1..Len(real_latency_rx) :
        /\ real_latency_rx[i].outcome.status = 301
        /\ real_latency_rx[i].status.tag = "Success"
        /\ real_latency_rx[j].outcome.status = 404
        /\ real_latency_rx[j].status.tag = "Failed"

\* good below 200 ms, warn from 200 to 499 ms, bad from 500 ms
LatencyClass(ms) ==
    IF ms < 200 THEN "good" ELSE IF ms >= 200 /\ ms < 500 THEN "warn" ELSE "bad"
ClassColor(c) ==
    CASE c = "good" -> "Green" [] c = "warn" -> "Yellow" [] OTHER -> "Red"

\* C14: the gauge of a successful single-target test and the latency cell of
\* every member row with a recorded delay are coloured by the same classes:
\* green below 200 ms, yellow from 200 to 499 ms, red from 500 ms; so 199 is
\* green, 200 and 499 are yellow and 500 is red in both.
C14_LatencyColours ==
    /\ real_latency_status.tag = "Success" =>
          GaugeColor(real_latency_status) = ClassColor(LatencyClass(real_latency_status.ms))
    /\ \A name \in DOMAIN proxies :
          LET l == RowLatency(proxy_latency, name)
          IN  l.some => /\ RowLatencyColor(l) = ClassColor(LatencyClass(l.v))
                        /\ RowLatencyColor(l) = GaugeColor(Success(l.v))
    /\ \A e \in { << 199, "Green" >>, << 200, "Yellow" >>, << 499, "Yellow" >>,
                 << 500, "Red" >> } :
          /\ real_latency_status = Success(e[1]) =>
                GaugeColor(real_latency_status) = e[2]
          /\ \A name \in DOMAIN proxy_latency :
                proxy_latency[name] = Some(e[1]) =>
                    RowLatencyColor(RowLatency(proxy_latency, name)) = e[2]

\* a frame has been drawn with the gauge at 200 ms and the rows at 499 and 500
C14_Witness ==
    /\ loop_pc = "poll"
    /\ real_latency_status = Success(200)
    /\ RowLatency(proxy_latency, "A") = Some(499)
    /\ RowLatency(proxy_latency, "B") = Some(500)

\* C15: when the settings file is missing (or has no path), cannot be read or
\* cannot be parsed, the settings loaded are base URL http://127.0.0.1:9090,
\* test URL https://www.google.com and test timeout 3000 ms, and startup goes
\* on to its fetches and its latency test.
C15_LoadFallsBackToDefaults ==
    settings_file \in { None, NoHome, Unreadable, Malformed } =>
        /\ app_settings.base_url =
              << "h", "t", "t", "p", ":", "/", "/", "1", "2", "7", ".", "0", ".", "0", ".", "1", ":", "9", "0", "9", "0" >>
        /\ app_settings.test_url =
              << "h", "t", "t", "p", "s", ":", "/", "/", "w", "w", "w", ".", "g", "o", "o", "g", "l", "e", ".", "c", "o", "m" >>
        /\ app_settings.test_timeout = 3000
        /\ loop_pc \in { "await", "resume", "draw", "poll" }
        /\ \A p \in real_probes : p.timeout = 3000

\* started with a settings file that does not parse, startup has completed and
\* its latency test has been answered
C15_Witness ==
    /\ settings_file = Malformed
    /\ ctx = "none"
    /\ loop_pc = "poll"
    /\ real_latency_status.tag = "Success"

\* a step of a background task: a probe ends, or the poller produces a sample
BackgroundStep ==
    \/ (real_probes' \subseteq real_probes /\ real_probes' # real_probes)
    \/ (group_probes' \subseteq group_probes /\ group_probes' # group_probes)
    \/ samples' # samples

\* C16: a step of a probe task or of the traffic poller changes no field of the
\* application state, only a channel; a latency result appears in the state,
\* and the traffic histories change, only in the loop's drain step, from a
\* message that was in the channel.
C16_BackgroundOnlySendsMessages ==
    [][/\ BackgroundStep => UNCHANGED app_vars
       /\ (real_latency_status' # real_latency_status
             /\ real_latency_status'.tag \in { "Success", "Failed" }) =>
              /\ DrainStep
              /\ real_latency_rx # << >>
              /\ real_latency_status' = Head(real_latency_rx).status
       /\ \A m \in DOMAIN proxy_latency' :
              (proxy_latency'[m].some
                 /\ (m \notin DOMAIN proxy_latency \/ proxy_latency[m] # proxy_latency'[m])) =>
                  /\ DrainStep
                  /\ \E i \in 1..Len(proxy_test_rx) :
                        /\ proxy_test_rx[i].name = m
                        /\ Some(proxy_test_rx[i].latency) = proxy_latency'[m]
       /\ (<< traffic_history_down, traffic_history_up, current_down, current_up >>' #
             << traffic_history_down, traffic_history_up, current_down, current_up >>) =>
              /\ DrainStep
              /\ traffic_rx # << >>]_vars

\* the loop has received a probe's result and traffic samples, and the poller
\* has produced a further sample that is still in the channel
C16_Witness ==
    /\ real_latency_status.tag \in { "Success", "Failed" }
    /\ traffic_history_down # << >>
    /\ traffic_rx # << >>
    /\ real_probes = {}

\* the transitions of the per-target state machine
StatusTransition(a, b) ==
    \/ a.tag = "Pending" /\ b.tag = "Testing"
    \/ a.tag = "Testing" /\ b.tag \in { "Success", "Failed" }
    \/ a.tag \in { "Success", "Failed" } /\ b.tag = "Testing"

\* C17: the latency status changes only along Pending -> Testing,
\* Testing -> Success or Failed, and Success or Failed -> Testing; it never
\* returns to Pending and never moves from one result directly to another.
C17_StatusStateMachine ==
    [][real_latency_status' # real_latency_status =>
          StatusTransition(real_latency_status, real_latency_status')]_vars

\* the loop resumes a write request (PATCH /configs, PUT /proxies/{group})
\* that the daemon answered with a status outside 2xx
WriteRefused(op) ==
    /\ loop_pc = "resume"
    /\ loop_pc' # "resume"
    /\ req.op = op
    /\ resp.conn = "ok"
    /\ ~is_success(resp.status)

\* C18: a PATCH /configs or PUT /proxies/{group} answered with a non-2xx
\* status makes update_config, respectively select_proxy, return an Error:
\* update_config ends there, without its fetch, and both report Err.
C18_WriteRefusedIsError ==
    [][/\ WriteRefused("patch") =>
              (ret'.update_config = "Err" /\ loop_pc' # "await")
       /\ WriteRefused("select_proxy") => ret'.select_proxy = "Err"]_vars

\* the loop resumes a control call of one of its key handlers that failed: no
\* connection, a status outside 2xx, or a body of a GET that does not parse
CallFailed ==
    /\ loop_pc = "resume"
    /\ ctx # "startup"
    /\ loop_pc' # "resume"
    /\ \/ IsFault(resp)
       \/ (req.op \in { "fetch_proxies", "fetch_config" } /\ ~resp.good)

\* the text the latest-error string gets for a failed response
FailureText(r) ==
    IF r.conn # "ok" THEN "Failed to connect"
    ELSE IF ~is_success(r.status) THEN "Server returned error"
    ELSE "Failed to parse JSON"

\* C19: when a control call issued from the loop (GET /proxies, GET /configs,
\* PATCH /configs, PUT /proxies/{group}) fails, the latest-error string is
\* set to the description of that failure.
C19_FailureSetsLatestError ==
    [][CallFailed => error' = FailureText(resp)]_vars

\* C20: the drain step of every pass leaves the traffic channel empty, and
\* the histories and the current rates after it are those obtained by applying
\* the samples that were queued one by one, oldest first.
C20_TrafficDrainedInOrder ==
    [][DrainStep =>
          /\ traffic_rx' = << >>
          /\ traffic_history_down' =
                LastN(traffic_history_down \o Downs(traffic_rx), HistoryCap)
          /\ traffic_history_up' =
                LastN(traffic_history_up \o Ups(traffic_rx), HistoryCap)
          /\ traffic_rx # << >> =>
                /\ current_down' = traffic_rx[Len(traffic_rx)].down
                /\ current_up' = traffic_rx[Len(traffic_rx)].up]_vars

\* the loop has drained: the channel is empty and the histories hold the last
\* two samples received, which differ, the older one first
C20_Witness ==
    /\ loop_pc = "poll"
    /\ traffic_rx = << >>
    /\ Len(ingested) >= 2
    /\ traffic_history_down = << ingested[Len(ingested) - 1].down, ingested[Len(ingested)].down >>
    /\ traffic_history_down[1] # traffic_history_down[2]
    /\ current_down = traffic_history_down[2]

\* the per-member state a row of the member table shows: the recorded delay,
\* or no result ("-")
MemberState(map, name) ==
    IF RowLatency(map, name).some THEN Success(RowLatency(map, name).v) ELSE Pending

\* the sweeps triggered have all ended and their results have been drained
SweepSettled ==
    /\ H >= 1
    /\ group_probes = {}
    /\ proxy_test_rx = << >>
    /\ loop_pc = "poll"

\* C21: once every member probe of a sweep has ended and the results are
\* drained, a member whose probe of the latest sweep measured a delay shows
\* Success(ms) and a member whose probe failed shows Failed(reason).
C21_FanoutSettlesEveryMember ==
    SweepSettled =>
        \A f \in finished :
            f.gen = H =>
                IF f.kind = "delay"
                THEN MemberState(proxy_latency, f.name) = Success(f.ms)
                ELSE MemberState(proxy_latency, f.name).tag = "Failed"

\* C22: Enter on a selected member sends PUT /proxies/{group} with that
\* member; when the PUT is answered, whatever the answer, the handler sends
\* GET /proxies next, and the loop reads no key in between; the stored proxy
\* map, the active member included, changes only to the body of a usable
\* answer to GET /proxies.
C22_SelectThenRefetch ==
    [][/\ (ctx' = "select" /\ ctx # "select") =>
              /\ MainView /\ focus = "Proxies"
              /\ get_selected_group_name.some /\ get_selected_proxy_name.some
              /\ req'.op = "select_proxy"
              /\ req'.body = [group |-> get_selected_group_name.v,
                              name |-> get_selected_proxy_name.v]
       /\ ctx' = "select" => loop_pc' \in { "await", "resume" }
       /\ (loop_pc = "resume" /\ loop_pc' # "resume" /\ req.op = "select_proxy") =>
              (loop_pc' = "await" /\ req'.op = "fetch_proxies" /\ ctx' = "select")
       /\ proxies' # proxies =>
              /\ loop_pc = "resume"
              /\ req.op = "fetch_proxies"
              /\ Usable(resp)
              /\ proxies' = resp.body]_vars

\* the PUT of a selection has failed and the handler's GET /proxies is in flight
C22_Witness ==
    /\ ctx = "select"
    /\ loop_pc = "await"
    /\ req.op = "fetch_proxies"
    /\ ret.select_proxy = "Err"
    /\ proxies = DaemonProxies

\* the generations of the results in the channel
QueuedGens == { real_latency_rx[i].gen : i \in 1..Len(real_latency_rx) }

\* C23: a probe task that ends leaves exactly one message in the results
\* channel, its own; the channel never holds more than its capacity, and when
\* it is full the task stays waiting with its result; a message leaves the
\* channel only when the loop receives it and makes it the status; no task
\* is behind two messages.
C23_OneResultPerProbe ==
    [][/\ Len(real_latency_rx') <= LatencyChanCap
       /\ \A p \in real_probes \ real_probes' :
              /\ real_probes \ real_probes' = {p}
              /\ Len(real_latency_rx) < LatencyChanCap
              /\ Len(real_latency_rx') = Len(real_latency_rx) + 1
              /\ SubSeq(real_latency_rx', 1, Len(real_latency_rx)) = real_latency_rx
              /\ real_latency_rx'[Len(real_latency_rx')].gen = p.gen
       /\ (real_latency_rx' # real_latency_rx /\ real_probes' = real_probes) =>
              /\ DrainStep
              /\ real_latency_rx # << >>
              /\ real_latency_rx' = Tail(real_latency_rx)
              /\ real_latency_status' = Head(real_latency_rx).status
       /\ Cardinality(QueuedGens') = Len(real_latency_rx')
       /\ \A p \in real_probes' : p.gen \notin QueuedGens']_vars

\* the channel is full for the second time: a task that had to wait has sent
\* its result after the loop received one, and another task is still waiting
C23_Witness ==
    /\ Len(real_latency_rx) = LatencyChanCap
    /\ shown_gen = 2
    /\ real_latency_rx[LatencyChanCap].gen > LatencyChanCap
    /\ real_latency_rx[LatencyChanCap - 1].gen > LatencyChanCap
    /\ real_probes # {}

\* C24: the cached config goes from absent to present exactly in the step in
\* which fetch_config handles a usable answer to GET /configs, and once
\* present it is never absent again, whatever fetch or PATCH fails afterwards
\* and whatever is edited.
C24_ConfigStaysPresent ==
    [][/\ config.some => config'.some
       /\ (~config.some /\ config'.some) =>
              (loop_pc = "resume" /\ req.op = "fetch_config" /\ Usable(resp))
       /\ (loop_pc = "resume" /\ loop_pc' # "resume" /\ req.op = "fetch_config"
             /\ Usable(resp)) => config'.some]_vars

\* after the config was loaded, a GET /configs has failed to connect and the
\* config is still the one loaded
C24_Witness ==
    /\ loop_pc = "draw"
    /\ ctx = "none"
    /\ ret.of = "fetch_config"
    /\ resp.conn = "err"
    /\ config = Some(DaemonConfig)

\* the position of a name in the lexicographic order
Rank(n) == CHOOSE i \in 1..Len(NameOrder) : NameOrder[i] = n

\* C25: the group list is in ascending order and holds, once for each of them,
\* the names of the entries of the stored proxy map whose type is Selector and
\* that carry a name, and nothing else; this holds after a fetch_proxies that
\* succeeded and after one that failed.
C25_GroupListMatchesMap ==
    /\ \A i \in 1..Len(group_names) : group_names[i] \in Names
    /\ \A i, j \in 1..Len(group_names) :
          i < j => Rank(group_names[i]) <= Rank(group_names[j])
    /\ \A n \in Names :
          Cardinality({ i \in 1..Len(group_names) : group_names[i] = n }) =
              Cardinality({ k \in DOMAIN proxies :
                              /\ proxies[k].proxy_type = "Selector"
                              /\ proxies[k].name # NoStr
                              /\ proxies[k].name = n })

\* a map with two Selectors is stored and listed in order, and the fetch_proxies
\* made after the daemon's groups changed has failed
C25_Witness ==
    /\ loop_pc = "draw"
    /\ ret.of = "fetch_config"
    /\ error # NoStr
    /\ group_names = << "G1", "G2" >>
    /\ proxies # d_proxies
    /\ d_proxies["G1"].name = NoStr

\* the selection is an index of the list, when there is a selection
ValidIndex(sel, len) == sel.some => sel.v < len

\* C28: the selected group index is an index of the group list when the list
\* is not empty, the selected member index is an index of the selected group's
\* member list when that list is not empty, and no navigation key overflows
\* (no panic, no index wrapped to usize::MAX).
C28_SelectionStaysValid ==
    /\ loop_pc # "panicked"
    /\ group_state # Some(USizeMax)
    /\ proxy_state # Some(USizeMax)
    /\ group_names # << >> => ValidIndex(group_state, Len(group_names))
    /\ (SelectedAll.some /\ SelectedAll.v # << >>) =>
          ValidIndex(proxy_state, Len(SelectedAll.v))

\* C26: the step that commits an edit of the base URL, the API secret or the
\* test URL leaves the text of the buffer in the local settings, and that of
\* a test timeout the number the text denotes; the step that commits an edit
\* of the mixed port or the bind address changes neither the local settings,
\* nor the settings file, nor the cached config: it sends a PATCH that a GET
\* /configs follows, or nothing.
C26_LocalEditsImmediate ==
    [][(EditEnter /\ SelectedEntry.some) =>
          LET entry == SelectedEntry.v
          IN  /\ entry = "BaseUrl" => app_settings'.base_url = editing_value
              /\ entry = "ApiSecret" => app_settings'.api_secret = editing_value
              /\ entry = "TestUrl" => app_settings'.test_url = editing_value
              /\ (entry = "TestTimeout" /\ ParseU64(editing_value).some) =>
                    to_string(app_settings'.test_timeout) =
                        to_string(DecimalValue(IF Head(editing_value) = "+"
                                               THEN Tail(editing_value)
                                               ELSE editing_value))
              /\ entry \in { "MixedPort", "BindAddress" } =>
                    /\ UNCHANGED << app_settings, settings_file, config >>
                    /\ loop_pc' = "await" =>
                          (req'.op = "patch" /\ plan' = << "fetch_config" >>)]_vars

\* an edited base URL is in the local settings while the fetch that commit_edit
\* sends to it is not answered yet
C26_Witness ==
    /\ ctx = "edit_fetch"
    /\ loop_pc = "await"
    /\ req.op = "fetch_proxies"
    /\ app_settings.base_url = Append(default_base_url, "1")
    /\ req.base = app_settings.base_url

\* C27: whenever the single-target status is Testing it is later Success or
\* Failed, also when the test is triggered again with probes in flight and
\* when the loop has a control call outstanding.
C27_TestingSettles ==
    (real_latency_status.tag = "Testing") ~>
        (real_latency_status.tag \in { "Success", "Failed" })

\* the current value of a settings entry as text: of the local settings, of
\* the cached config, or empty for a daemon entry while no config is loaded
CurrentValue(entry) ==
    CASE entry = "MixedPort" ->
            IF config.some THEN to_string(config.v.mixed_port) ELSE << >>
      [] entry = "BindAddress" ->
            IF config.some THEN config.v.bind_address ELSE << >>
      [] OTHER -> LocalValue(entry)

\* C29: the step that enters editing mode sets the edit buffer to the current
\* value of the selected entry, with or without a config loaded; it never
\* leaves in it the text of an earlier edit.
C29_EditBufferIsCurrentValue ==
    [][(~is_editing /\ is_editing' /\ SelectedEntry.some) =>
          editing_value' = CurrentValue(SelectedEntry.v)]_vars

\* the digits of a text that is a decimal number with an optional sign '+';
\* None for any other text
DigitsOf(text) ==
    LET ds == IF text # << >> /\ text[1] = "+" THEN SubSeq(text, 2, Len(text)) ELSE text
    IN  IF Len(ds) >= 1 /\ (\A i \in 1..Len(ds) : \E d \in 0..9 : ds[i] = DigitChars[d + 1])
        THEN Some(ds)
        ELSE None

\* the edit popup is open on the mixed port with a text that is not a 16-bit
\* unsigned integer, or on the test timeout with a text that is not an
\* unsigned integer (every number of at most MaxDigits digits is a u64)
InvalidNumberEdit ==
    /\ Editing
    /\ Len(editing_value) <= MaxDigits
    /\ \/ /\ SelectedEntry = Some("MixedPort")
          /\ DigitsOf(editing_value).some => DecimalValue(DigitsOf(editing_value).v) > U16Max
       \/ /\ SelectedEntry = Some("TestTimeout")
          /\ ~DigitsOf(editing_value).some

\* C30: Enter on a mixed port that is not a 16-bit unsigned integer, or on a
\* test timeout that is not an unsigned integer, sends no request and changes
\* neither the local settings, nor the settings file, nor the cached config;
\* editing mode ends.
C30_InvalidNumberIgnored ==
    [][(InvalidNumberEdit /\ EditEnter) =>
          /\ UNCHANGED << app_settings, settings_file, config, req, calls >>
          /\ loop_pc' = "draw"
          /\ ~is_editing']_vars

\* the mixed port was edited to 78901, beyond 16 bits, and committed: editing
\* has ended, no call was made and the config is as loaded
C30_Witness ==
    /\ ~is_editing
    /\ loop_pc = "draw"
    /\ SelectedEntry = Some("MixedPort")
    /\ editing_value = << "7", "8", "9", "0", "1" >>
    /\ calls = 0
    /\ config = Some(DaemonConfig)
    /\ settings_file = None

\* the element after v in the cycle c, the first element when v is not in c
Successor(c, v) ==
    IF \E i \in 1..Len(c) : c[i] = v
    THEN LET i == CHOOSE k \in 1..Len(c) : c[k] = v IN c[(i % Len(c)) + 1]
    ELSE c[1]

ModeCycle == << "rule", "global", "direct" >>
LogLevelCycle == << "info", "warning", "error", "debug", "silent" >>

ConfigEntries == { "Mode", "Tun", "LogLevel", "AllowLan", "Ipv6" }

\* C31: Enter on Mode requests the successor of the cached mode in rule ->
\* global -> direct -> rule, Enter on Log Level the successor of the cached
\* level in info -> warning -> error -> debug -> silent -> info, a value outside
\* the cycle giving the first element; Enter on Mode, TUN, Log Level, Allow LAN
\* or IPv6 with no config loaded sends no request.
C31_CycleSuccessorRequested ==
    [][ (KeySettingsEnter /\ SelectedEntry.some /\ SelectedEntry.v \in ConfigEntries)
        => IF config.some
           THEN /\ (SelectedEntry.v = "Mode"
                      => /\ loop_pc' = "await"
                         /\ req'.op = "patch"
                         /\ req'.body = [field |-> "mode",
                                         value |-> Successor(ModeCycle, config.v.mode)])
                /\ (SelectedEntry.v = "LogLevel"
                      => /\ loop_pc' = "await"
                         /\ req'.op = "patch"
                         /\ req'.body = [field |-> "log-level",
                                         value |-> Successor(LogLevelCycle,
                                                             config.v.log_level)])
           ELSE /\ loop_pc' = "draw"
                /\ req = NoReq
                /\ req' = req
                /\ calls' = calls ]_vars

\* Enter on Log Level with the cached level silent has requested info
C31_Witness ==
    /\ loop_pc = "await"
    /\ ctx = "setting"
    /\ config.some
    /\ config.v.log_level = "silent"
    /\ req.op = "patch"
    /\ req.body = [field |-> "log-level", value |-> "info"]

\* C32: in every reachable state editing mode implies the focus is Settings,
\* the info popup being open implies the focus is Proxies, so the two are never
\* active together, and the popup scroll offset is 0 whenever the popup is
\* closed.
C32_PopupsAndFocus ==
    /\ is_editing => focus = "Settings"
    /\ show_info_popup => focus = "Proxies"
    /\ ~(is_editing /\ show_info_popup)
    /\ ~show_info_popup => popup_scroll = 0

\* the popup is open and scrolled down, after a visit to the settings view
\* that was opened from the proxies table
C32_Witness ==
    /\ show_info_popup
    /\ popup_scroll = MaxScroll
    /\ focus = "Proxies"
    /\ previous_focus = "Proxies"
    /\ ~is_editing

\* a step taken while the edit popup stays open and nothing has been committed
EditingGoesOn ==
    /\ is_editing /\ loop_pc \in { "draw", "poll" }
    /\ is_editing' /\ loop_pc' \in { "draw", "poll" }

\* no request is sent and the local settings, the settings file, the cached
\* config and the focus stay as they are
EditLeavesSettings ==
    /\ req' = req
    /\ req = NoReq
    /\ calls' = calls
    /\ UNCHANGED << app_settings, settings_file, config, focus, previous_focus >>

\* C33: Esc in editing mode ends editing and changes nothing else: no request
\* is sent, and the local settings, the settings file, the cached config and the
\* focus are the same as before editing started.
C33_EscOnlyEndsEditing ==
    [][ /\ EditingGoesOn => EditLeavesSettings
        /\ EditEsc =>
              /\ ~is_editing'
              /\ EditLeavesSettings
              /\ UNCHANGED << proxies, real_latency_status, proxy_latency,
                              traffic_history_down, traffic_history_up, current_down,
                              current_up, group_names, group_state, proxy_state,
                              show_info_popup, popup_scroll, settings_state,
                              editing_value, error, chan_vars, task_vars, plan, ctx,
                              d_config, d_proxies >> ]_vars

\* the base URL was opened for editing, an 'x' was typed and Esc was pressed:
\* the buffer holds the edit, the settings are as loaded and no call was made
C33_Witness ==
    /\ ~is_editing
    /\ loop_pc = "draw"
    /\ focus = "Settings"
    /\ SelectedEntry = Some("BaseUrl")
    /\ editing_value = Append(app_settings.base_url, "x")
    /\ app_settings = DefaultSettings
    /\ settings_file = None
    /\ calls = 0

\* the views other than the settings view
ContentViews == { "Groups", "Proxies" }

\* C34: closing the settings view returns the focus to the view (Groups or
\* Proxies) that had the focus when the settings view was opened, and the
\* remembered previous focus is never Settings: the focus is remembered when the
\* view opens, kept while it is open, and restored when it closes.
C34_SettingsReturnsToOpener ==
    /\ [](previous_focus \in ContentViews)
    /\ [][ /\ (focus # "Settings" /\ focus' = "Settings") => previous_focus' = focus
           /\ (focus = "Settings" /\ focus' = "Settings")
                 => previous_focus' = previous_focus
           /\ (focus = "Settings" /\ focus' # "Settings")
                 => (focus' = previous_focus /\ focus' \in ContentViews) ]_vars

\* the settings view was opened from the proxies table and closed again
C34_Witness ==
    /\ focus = "Proxies"
    /\ previous_focus = "Proxies"
    /\ ~show_info_popup
    /\ loop_pc = "draw"

====
